---------------------------- MODULE Spec2Model ----------------------------
(***************************************************************************)
(* A model of the valu3 value library: the 12-slot Number, the Object with *)
(* its two backings, the Array, the Value tagged union and its accessors,  *)
(* the key coercion, the numeric parsing cascade and the JSON printer and  *)
(* parser.                                                                 *)
(*                                                                         *)
(* Representation.  An Option<T> is a sequence of length 0 (None) or 1     *)
(* (Some).  A Rust string is a sequence of one-character strings.  An      *)
(* integer of any width is a record [neg, mag] with mag its decimal digits *)
(* (most significant first, no leading zero, <<>> for zero): the widths go *)
(* up to 128 bits and do not fit the model checker's integers.  A float is *)
(* a record [neg, mant, exp] standing for mant * 10^exp, mant a digit      *)
(* sequence without leading or trailing zeros.                             *)
(***************************************************************************)
EXTENDS Integers, Sequences, FiniteSets, TLC

VARIABLES
    number,     \* the Number under test (types/number.rs, struct Number)
    ncalls,     \* the calls made on `number` since Number::default(), in order
    val,        \* the Value under test (value.rs, enum DefaultValue)
    calls,      \* the most recent calls made on `val`, oldest first
    objS,       \* an Object built from a BTreeMap (sorted backing)
    objH,       \* an Object built from a HashMap with the same entries
    ocall,      \* the last call made on both Objects, with what each returned
    arg,        \* the argument of a conversion (try_from, from, to_json, ...)
    out         \* the conversion's result, once it has run

vars == <<number, ncalls, val, calls, objS, objH, ocall, arg, out>>

None == <<>>
Some(v) == <<v>>
is_some(o) == Len(o) = 1
unwrap(o) == o[1]

IntV(neg, mag) == [neg |-> neg, mag |-> mag]
FloatV(neg, mant, exp) == [neg |-> neg, mant |-> mant, exp |-> exp]

(***************************************************************************)
(* Strings and keys                                                        *)
(***************************************************************************)
\* The printable ASCII characters, in code order from 32 (space) to 126; the
\* grave accent (96), which a string literal here cannot hold, is spelled out.
Ascii == <<
    " ", "!", "\"", "#", "$", "%", "&", "'", "(", ")", "*", "+",
    ",", "-", ".", "/", "0", "1", "2", "3", "4", "5", "6", "7",
    "8", "9", ":", ";", "<", "=", ">", "?", "@", "A", "B", "C",
    "D", "E", "F", "G", "H", "I", "J", "K", "L", "M", "N", "O",
    "P", "Q", "R", "S", "T", "U", "V", "W", "X", "Y", "Z", "[",
    "\\", "]", "^", "_", "grave", "a", "b", "c", "d", "e", "f", "g",
    "h", "i", "j", "k", "l", "m", "n", "o", "p", "q", "r", "s",
    "t", "u", "v", "w", "x", "y", "z", "{", "|", "}", "~">>

\* The byte of an ASCII character.
CharCode(c) ==
    IF c = "\t" THEN 9
    ELSE IF c = "\n" THEN 10
    ELSE 31 + (CHOOSE i \in 1..Len(Ascii) : Ascii[i] = c)

\* String's Ord: byte-wise lexicographic, a proper prefix being smaller.
RECURSIVE StrLess(_, _)
StrLess(a, b) ==
    IF b = <<>> THEN FALSE
    ELSE IF a = <<>> THEN TRUE
    ELSE IF a[1] # b[1] THEN CharCode(a[1]) < CharCode(b[1])
    ELSE StrLess(Tail(a), Tail(b))

\* enum ValueKey { String(String), Number(usize) }
ValueKeyString(s) == [kind |-> "String", s |-> s]
ValueKeyNumber(n) == [kind |-> "Number", n |-> n]

\* ValueKey's derived Ord: by variant in declaration order, then by payload.
KeyLess(a, b) ==
    IF a.kind # b.kind THEN a.kind = "String"
    ELSE IF a.kind = "String" THEN StrLess(a.s, b.s)
    ELSE a.n < b.n

\* A key as the caller passes it: a String, a &str or a usize.
KeyOfString(s) == [type |-> "String", s |-> s]
KeyOfStr(s) == [type |-> "str", s |-> s]
KeyOfUsize(n) == [type |-> "usize", n |-> n]

to_value_key_mut(key) ==
    IF key.type = "usize" THEN ValueKeyNumber(key.n)
    ELSE IF key.s = <<"1", "0">> THEN ValueKeyNumber(10)
    ELSE ValueKeyString(key.s)

\* ValueKeyBehavior::to_value_key of the three impls
to_value_key(key) ==
    CASE key.type = "String" -> ValueKeyString(key.s)
      [] key.type = "usize" -> ValueKeyNumber(key.n)
      [] key.type = "str" -> ValueKeyString(key.s)

as_usize_mut(key) ==
    IF key.type = "usize" THEN key.n ELSE IF key.s = <<"1">> THEN 1 ELSE 0

\* ValueKeyBehavior::as_usize: the trait's default 0, overridden for usize
as_usize(key) == IF key.type = "usize" THEN key.n ELSE 0

\* The decimal digits of a usize, as usize's Display writes them.
RECURSIVE usize_to_string(_)
usize_to_string(n) ==
    IF n < 10 THEN <<Ascii[17 + n]>>
    ELSE Append(usize_to_string(n \div 10), Ascii[17 + (n % 10)])

\* ValueKey::to_string
ValueKey_to_string(k) ==
    IF k.kind = "String" THEN k.s ELSE usize_to_string(k.n)

(***************************************************************************)
(* Number                                                                  *)
(***************************************************************************)
Widths == <<"u8", "u16", "u32", "u64", "u128",
            "i8", "i16", "i32", "i64", "i128", "f32", "f64">>

WidthSet == {Widths[i] : i \in 1..Len(Widths)}

NumberDefault == [w \in WidthSet |-> None]

clean_mut(n) == [w \in WidthSet |-> IF w = "u8" THEN n.u8 ELSE None]

clean(n) ==
    [u8 |-> None, u16 |-> None, u32 |-> None, u64 |-> None, u128 |-> None,
     i8 |-> None, i16 |-> None, i32 |-> None, i64 |-> None, i128 |-> None,
     f32 |-> None, f64 |-> None]

set_mut(n, X, value) == [clean(n) EXCEPT ![X] = Some(value)]

\* set_X(value), X given by name: self.X = Some(value)
set(n, X, value) == [n EXCEPT ![X] = Some(value)]

\* get_X(), X given by name: self.X
get_slot(n, X) == n[X]

\* get_X_unsafe(), X given by name: self.X.unwrap(); a call outcome, the
\* unwrap of None being a panic
get_unsafe(n, X) ==
    IF is_some(n[X]) THEN [outcome |-> "ok", ret |-> unwrap(n[X])]
    ELSE [outcome |-> "panic"]

\* is_X(), X given by name: self.X.is_some()
is_slot(n, X) == is_some(n[X])

number_type(n) ==
    IF is_slot(n, "i8") THEN "I8"
    ELSE IF is_slot(n, "i16") THEN "I16"
    ELSE IF is_slot(n, "i32") THEN "I32"
    ELSE IF is_slot(n, "i64") THEN "I64"
    ELSE IF is_slot(n, "i128") THEN "I128"
    ELSE IF is_slot(n, "u8") THEN "U8"
    ELSE IF is_slot(n, "u16") THEN "U16"
    ELSE IF is_slot(n, "u32") THEN "U32"
    ELSE IF is_slot(n, "u64") THEN "U64"
    ELSE IF is_slot(n, "u128") THEN "U128"
    ELSE IF is_slot(n, "f32") THEN "F32"
    ELSE IF is_slot(n, "f64") THEN "F64"
    ELSE "Unknown"

\* The NumberType tag named after width X (enum NumberType).
TagOf(X) ==
    CASE X = "u8" -> "U8" [] X = "u16" -> "U16" [] X = "u32" -> "U32"
      [] X = "u64" -> "U64" [] X = "u128" -> "U128"
      [] X = "i8" -> "I8" [] X = "i16" -> "I16" [] X = "i32" -> "I32"
      [] X = "i64" -> "I64" [] X = "i128" -> "I128"
      [] X = "f32" -> "F32" [] X = "f64" -> "F64"

\* Values handed to the setters, inside the width's range: -42.0 and 3.14,
\* -42 and 0, 42 and 0; two for u8, i32 and f64, one for the other widths.
Samples(X) ==
    IF X \in {"f32", "f64"}
    THEN {FloatV(TRUE, <<4, 2>>, 0)}
         \cup (IF X = "f64" THEN {FloatV(FALSE, <<3, 1, 4>>, -2)} ELSE {})
    ELSE IF X \in {"i8", "i16", "i32", "i64", "i128"}
    THEN {IntV(TRUE, <<4, 2>>)}
         \cup (IF X = "i32" THEN {IntV(FALSE, <<>>)} ELSE {})
    ELSE {IntV(FALSE, <<4, 2>>)}
         \cup (IF X = "u8" THEN {IntV(FALSE, <<>>)} ELSE {})

MaxCalls == 4

CleanCall == [op |-> "clean"]
SetCall(X, v) == [op |-> "set", width |-> X, value |-> v]

\* The parts of the state a specification does not exercise stay as built.
NumberIdle == number = NumberDefault /\ ncalls = <<>>
ValueIdle == val = [tag |-> "Null"] /\ calls = <<>>
ObjectIdle ==
    /\ objS = [backing |-> "HashMap", map |-> <<>>]
    /\ objH = [backing |-> "HashMap", map |-> <<>>]
    /\ ocall = [op |-> "none"]
ConversionIdle == arg = <<>> /\ out = [done |-> FALSE]

NumberInit ==
    /\ number = NumberDefault
    /\ ncalls = <<>>
    /\ ValueIdle
    /\ ObjectIdle
    /\ ConversionIdle

\* number.clean()
NumClean ==
    /\ Len(ncalls) < MaxCalls
    /\ number' = clean(number)
    /\ ncalls' = Append(ncalls, CleanCall)
    /\ UNCHANGED <<val, calls, objS, objH, ocall, arg, out>>

\* number.set_X(v)
NumSet ==
    /\ Len(ncalls) < MaxCalls
    /\ \E i \in 1..Len(Widths) : \E v \in Samples(Widths[i]) :
          /\ number' = set(number, Widths[i], v)
          /\ ncalls' = Append(ncalls, SetCall(Widths[i], v))
    /\ UNCHANGED <<val, calls, objS, objH, ocall, arg, out>>

NumberNext == NumClean \/ NumSet

SpecNumber == NumberInit /\ [][NumberNext]_vars

\* Every call so far is one half of a clean().set_X(v) step.
CleanSetSteps(cs) ==
    /\ Len(cs) >= 2
    /\ Len(cs) % 2 = 0
    /\ \A i \in 1..Len(cs) :
          cs[i].op = (IF i % 2 = 1 THEN "clean" ELSE "set")

\* C1: after any sequence of clean().set_X(v) steps from Number::default(),
\* exactly one is_X() predicate is true, the X of the last step; get_X()
\* returns Some(v) of the last step and number_type() the tag of that X.
C1_SingleSlot ==
    CleanSetSteps(ncalls) =>
        LET last == ncalls[Len(ncalls)] IN
        /\ \A i \in 1..Len(Widths) :
              is_slot(number, Widths[i]) <=> (Widths[i] = last.width)
        /\ get_slot(number, last.width) = Some(last.value)
        /\ number_type(number) = TagOf(last.width)

\* Two clean().set_X(v) steps, of different widths, have been made.
C1_Witness ==
    /\ CleanSetSteps(ncalls)
    /\ Len(ncalls) = 4
    /\ ncalls[2].width # ncalls[4].width
    /\ ncalls[2].width = "i8"
    /\ ncalls[4].width = "f64"

(***************************************************************************)
(* Object                                                                  *)
(*                                                                         *)
(* A BTreeMap is the sequence of its <<key, value>> entries in key order,  *)
(* a HashMap the function from its keys to its values.  An operation that  *)
(* changes the receiver yields the new receiver and the returned value.    *)
(***************************************************************************)
BTreeMap_get(m, k) ==
    IF \E i \in 1..Len(m) : m[i][1] = k
    THEN Some(m[CHOOSE i \in 1..Len(m) : m[i][1] = k][2])
    ELSE None

BTreeMap_insert_mut(m, k, value) ==
    IF \E i \in 1..Len(m) : m[i][1] = k
    THEN [map |-> m, ret |-> BTreeMap_get(m, k)]
    ELSE LET below == SelectSeq(m, LAMBDA e : KeyLess(e[1], k))
             above == SelectSeq(m, LAMBDA e : KeyLess(k, e[1]))
         IN [map |-> below \o <<(<<k, value>>)>> \o above, ret |-> None]

\* BTreeMap::insert: replaces the value of a present key and returns the old
\* one, otherwise places the entry at its position in key order.
BTreeMap_insert(m, k, value) ==
    IF \E i \in 1..Len(m) : m[i][1] = k
    THEN LET i == CHOOSE i \in 1..Len(m) : m[i][1] = k
         IN [map |-> [m EXCEPT ![i] = <<k, value>>], ret |-> Some(m[i][2])]
    ELSE LET below == SelectSeq(m, LAMBDA e : KeyLess(e[1], k))
             above == SelectSeq(m, LAMBDA e : KeyLess(k, e[1]))
         IN [map |-> below \o <<(<<k, value>>)>> \o above, ret |-> None]

BTreeMap_remove(m, k) ==
    [map |-> SelectSeq(m, LAMBDA e : e[1] # k), ret |-> BTreeMap_get(m, k)]

HashMap_get(m, k) == IF k \in DOMAIN m THEN Some(m[k]) ELSE None

HashMap_insert(m, k, value) ==
    [map |-> [x \in DOMAIN m \cup {k} |-> IF x = k THEN value ELSE m[x]],
     ret |-> HashMap_get(m, k)]

HashMap_remove(m, k) ==
    [map |-> [x \in DOMAIN m \ {k} |-> m[x]], ret |-> HashMap_get(m, k)]

\* enum Object { BTreeMap(..), HashMap(..) }
ObjectBTreeMap(m) == [backing |-> "BTreeMap", map |-> m]
ObjectHashMap(m) == [backing |-> "HashMap", map |-> m]

\* Object::default()
Object_default == ObjectHashMap(<<>>)

Object_get(o, key) ==
    LET value_key == to_value_key(key) IN
    IF o.backing = "BTreeMap" THEN BTreeMap_get(o.map, value_key)
    ELSE HashMap_get(o.map, value_key)

\* get_mut hands out the same entry as get, mutably
Object_get_mut(o, key) ==
    LET value_key == to_value_key(key) IN
    IF o.backing = "BTreeMap" THEN BTreeMap_get(o.map, value_key)
    ELSE HashMap_get(o.map, value_key)

Object_clean_mut(o) == ObjectHashMap(<<>>)

Object_clean(o) ==
    IF o.backing = "BTreeMap" THEN ObjectBTreeMap(<<>>)
    ELSE ObjectHashMap(<<>>)

Object_insert(o, key, value) ==
    LET k == to_value_key(key) IN
    IF o.backing = "BTreeMap"
    THEN LET r == BTreeMap_insert(o.map, k, value)
         IN [obj |-> ObjectBTreeMap(r.map), ret |-> r.ret]
    ELSE LET r == HashMap_insert(o.map, k, value)
         IN [obj |-> ObjectHashMap(r.map), ret |-> r.ret]

Object_len(o) ==
    IF o.backing = "BTreeMap" THEN Len(o.map) ELSE Cardinality(DOMAIN o.map)

Object_is_empty(o) ==
    IF o.backing = "BTreeMap" THEN o.map = <<>> ELSE DOMAIN o.map = {}

Object_remove_mut(o, key) ==
    [obj |-> o, ret |-> Object_get(o, key)]

Object_remove(o, key) ==
    LET k == to_value_key(key) IN
    IF o.backing = "BTreeMap"
    THEN LET r == BTreeMap_remove(o.map, k)
         IN [obj |-> ObjectBTreeMap(r.map), ret |-> r.ret]
    ELSE LET r == HashMap_remove(o.map, k)
         IN [obj |-> ObjectHashMap(r.map), ret |-> r.ret]

Object_contains_key(o, key) ==
    LET k == to_value_key(key) IN
    IF o.backing = "BTreeMap" THEN \E i \in 1..Len(o.map) : o.map[i][1] = k
    ELSE k \in DOMAIN o.map

\* The orders in which a HashMap can hand out its keys: any.
HashOrders(m) ==
    {ks \in [1..Cardinality(DOMAIN m) -> DOMAIN m] :
        \A i, j \in DOMAIN ks : i # j => ks[i] # ks[j]}

\* keys(): the returns the call can produce, one for a BTreeMap (key order)
Object_keys(o) ==
    IF o.backing = "BTreeMap" THEN {[i \in 1..Len(o.map) |-> o.map[i][1]]}
    ELSE HashOrders(o.map)

\* values(): the values in the order of keys()
Object_values(o) ==
    IF o.backing = "BTreeMap" THEN {[i \in 1..Len(o.map) |-> o.map[i][2]]}
    ELSE {[i \in DOMAIN ks |-> o.map[ks[i]]] : ks \in HashOrders(o.map)}

Object_iter_mut(o) ==
    IF o.backing = "BTreeMap" THEN {IF o.map = <<>> THEN <<>> ELSE Tail(o.map)}
    ELSE {[i \in DOMAIN ks |-> <<ks[i], o.map[ks[i]]>>] : ks \in HashOrders(o.map)}

\* Object::iter(): the sequences of <<key, value>> the iteration can yield
Object_iter(o) ==
    IF o.backing = "BTreeMap" THEN {o.map}
    ELSE {[i \in DOMAIN ks |-> <<ks[i], o.map[ks[i]]>>] : ks \in HashOrders(o.map)}

\* From<BTreeMap<T, V>> for Object: the entries of a map with caller-typed
\* keys (a function), each key through to_value_key, collected in a BTreeMap
RECURSIVE Object_from_BTreeMap(_)
Object_from_BTreeMap(m) ==
    IF DOMAIN m = {} THEN ObjectBTreeMap(<<>>)
    ELSE LET x == CHOOSE x \in DOMAIN m : TRUE
             rest == Object_from_BTreeMap([y \in DOMAIN m \ {x} |-> m[y]])
         IN ObjectBTreeMap(
                BTreeMap_insert(rest.map, to_value_key(x), m[x]).map)

\* From<HashMap<T, V>> for Object: the same, collected in a HashMap
RECURSIVE Object_from_HashMap(_)
Object_from_HashMap(m) ==
    IF DOMAIN m = {} THEN ObjectHashMap(<<>>)
    ELSE LET x == CHOOSE x \in DOMAIN m : TRUE
             rest == Object_from_HashMap([y \in DOMAIN m \ {x} |-> m[y]])
         IN ObjectHashMap(
                HashMap_insert(rest.map, to_value_key(x), m[x]).map)

(***************************************************************************)
(* Value                                                                   *)
(***************************************************************************)
\* enum DefaultValue
ValueString(s) == [tag |-> "String", s |-> s]
ValueNumber(n) == [tag |-> "Number", n |-> n]
ValueBoolean(b) == [tag |-> "Boolean", b |-> b]
ValueArray(a) == [tag |-> "Array", arr |-> a]
ValueObject(o) == [tag |-> "Object", obj |-> o]
ValueNull == [tag |-> "Null"]
ValueUndefined == [tag |-> "Undefined"]
ValueDateTime(dt) == [tag |-> "DateTime", dt |-> dt]

\* Number::from(value: X), X given by name: Number { X: Some(value),
\* ..Default::default() }
Number_from(X, value) == [NumberDefault EXCEPT ![X] = Some(value)]

(***************************************************************************)
(* Two Objects, one per backing, under the same calls                      *)
(***************************************************************************)
\* The keys the calls are made with: strings of digits and of letters, as
\* String and as &str, and the usizes the digit strings spell.
KeyStrings == {<<"7">>, <<"1", "0">>, <<"a">>}
KeyUsizes == {7, 10}
NativeKeys ==
    {KeyOfString(s) : s \in KeyStrings} \cup {KeyOfStr(s) : s \in KeyStrings}
        \cup {KeyOfUsize(n) : n \in KeyUsizes}

\* The values stored.
ObjVals == {ValueBoolean(TRUE), ValueNumber(Number_from("i32", IntV(FALSE, <<1>>)))}

\* The maps the two Objects are built from: keys of one caller type.
InitMaps ==
    UNION {[D -> ObjVals] : D \in SUBSET {KeyOfString(s) : s \in KeyStrings}}
        \cup UNION {[D -> ObjVals] : D \in SUBSET {KeyOfUsize(n) : n \in KeyUsizes}}

\* From<Vec<(T, V)>> for Object: the pairs, each key through to_value_key,
\* collected in a HashMap (a later pair replaces an earlier one of its key)
RECURSIVE Object_from_Vec(_)
Object_from_Vec(pairs) ==
    IF pairs = <<>> THEN ObjectHashMap(<<>>)
    ELSE LET n == Len(pairs)
             rest == Object_from_Vec(SubSeq(pairs, 1, n - 1))
         IN ObjectHashMap(
                HashMap_insert(rest.map, to_value_key(pairs[n][1]), pairs[n][2]).map)

\* The vectors of pairs that list the entries of the map m, in any order.
VecsOf(m) == {[i \in DOMAIN ks |-> <<ks[i], m[ks[i]]>>] : ks \in HashOrders(m)}

\* The hash-backed Objects built from the entries of m, by constructor.
HashConstructed(m) ==
    {[ctor |-> "HashMap", obj |-> Object_from_HashMap(m)]}
        \cup {[ctor |-> "Vec", obj |-> Object_from_Vec(pairs)] : pairs \in VecsOf(m)}
        \cup (IF DOMAIN m = {} THEN {[ctor |-> "default", obj |-> Object_default]}
              ELSE {})

\* Object::from(sorted_map) and, of an equal map, Object::from(hash_map),
\* Object::from(vec_of_pairs) or Object::default()
ObjectInit ==
    /\ \E m \in InitMaps : \E h \in HashConstructed(m) :
          /\ objS = Object_from_BTreeMap(m)
          /\ objH = h.obj
          /\ ocall = [op |-> "from", ctorS |-> "BTreeMap", ctorH |-> h.ctor]
    /\ NumberIdle
    /\ ValueIdle
    /\ ConversionIdle

\* insert(key, value) on both
ObjInsert ==
    /\ \E key \in NativeKeys : \E value \in ObjVals :
          LET rS == Object_insert(objS, key, value)
              rH == Object_insert(objH, key, value)
          IN /\ objS' = rS.obj
             /\ objH' = rH.obj
             /\ ocall' = [op |-> "insert", key |-> key, value |-> value,
                          preS |-> objS, preH |-> objH,
                          retS |-> rS.ret, retH |-> rH.ret]
    /\ UNCHANGED <<number, ncalls, val, calls, arg, out>>

\* remove(&key) on both
ObjRemove ==
    /\ \E key \in NativeKeys :
          LET rS == Object_remove(objS, key)
              rH == Object_remove(objH, key)
          IN /\ objS' = rS.obj
             /\ objH' = rH.obj
             /\ ocall' = [op |-> "remove", key |-> key,
                          preS |-> objS, preH |-> objH,
                          retS |-> rS.ret, retH |-> rH.ret]
    /\ UNCHANGED <<number, ncalls, val, calls, arg, out>>

\* clean() on both
ObjClean ==
    /\ objS' = Object_clean(objS)
    /\ objH' = Object_clean(objH)
    /\ ocall' = [op |-> "clean", preS |-> objS, preH |-> objH]
    /\ UNCHANGED <<number, ncalls, val, calls, arg, out>>

\* get(&key) on both; get_mut(&key) hands out the same entries
ObjGet ==
    /\ \E key \in NativeKeys : \E op \in {"get", "get_mut"} :
          ocall' = [op |-> op, key |-> key, preS |-> objS, preH |-> objH,
                    retS |-> IF op = "get" THEN Object_get(objS, key)
                             ELSE Object_get_mut(objS, key),
                    retH |-> IF op = "get" THEN Object_get(objH, key)
                             ELSE Object_get_mut(objH, key)]
    /\ UNCHANGED <<objS, objH>>
    /\ UNCHANGED <<number, ncalls, val, calls, arg, out>>

\* The most entries of an Object whose keys(), values() or iter() is called:
\* a HashMap of n entries has n! orders to hand them out in.
MaxListed == 3

\* keys() on both
ObjKeys ==
    /\ Object_len(objH) <= MaxListed
    /\ \E retS \in Object_keys(objS) : \E retH \in Object_keys(objH) :
          ocall' = [op |-> "keys", preS |-> objS, preH |-> objH,
                    retS |-> retS, retH |-> retH]
    /\ UNCHANGED <<objS, objH>>
    /\ UNCHANGED <<number, ncalls, val, calls, arg, out>>

\* values() on both
ObjValues ==
    /\ Object_len(objH) <= MaxListed
    /\ \E retS \in Object_values(objS) : \E retH \in Object_values(objH) :
          ocall' = [op |-> "values", preS |-> objS, preH |-> objH,
                    retS |-> retS, retH |-> retH]
    /\ UNCHANGED <<objS, objH>>
    /\ UNCHANGED <<number, ncalls, val, calls, arg, out>>

\* iter() on both, run to its end
ObjIter ==
    /\ Object_len(objH) <= MaxListed
    /\ \E retS \in Object_iter(objS) : \E retH \in Object_iter(objH) :
          ocall' = [op |-> "iter", preS |-> objS, preH |-> objH,
                    retS |-> retS, retH |-> retH]
    /\ UNCHANGED <<objS, objH>>
    /\ UNCHANGED <<number, ncalls, val, calls, arg, out>>

ObjectNext ==
    \/ ObjInsert
    \/ ObjRemove
    \/ ObjClean
    \/ ObjGet
    \/ ObjKeys
    \/ ObjValues
    \/ ObjIter

SpecObject == ObjectInit /\ [][ObjectNext]_vars

\* C2: a sorted-backed and a hash-backed Object that start from the same
\* key/value set and receive the same insert, remove and clean calls agree,
\* after every step and for every key, on get, contains_key, len and
\* is_empty, and every insert and remove returned the same value on both.
C2_BackingTransparent ==
    /\ objS.backing = "BTreeMap"
    /\ objH.backing = "HashMap"
    /\ \A key \in NativeKeys :
          /\ Object_get(objS, key) = Object_get(objH, key)
          /\ Object_contains_key(objS, key) = Object_contains_key(objH, key)
    /\ Object_len(objS) = Object_len(objH)
    /\ Object_is_empty(objS) = Object_is_empty(objH)
    /\ ocall.op \in {"insert", "remove"} => ocall.retS = ocall.retH

\* An insert has replaced the value of a present key in Objects that hold
\* string and number keys.
C2_Witness ==
    /\ ocall.op = "insert"
    /\ is_some(ocall.retS)
    /\ ocall.retS # Some(ocall.value)
    /\ Object_len(objS) = 4
    /\ Object_contains_key(objH, KeyOfUsize(7))
    /\ Object_contains_key(objH, KeyOfStr(<<"7">>))

\* Two caller keys that name different entries: a usize and a string never
\* name the same one, two strings do when they are spelled alike.
OtherKey(a, b) ==
    IF a.type = "usize" \/ b.type = "usize" THEN a # b ELSE a.s # b.s

InsertedAsMap(pre, post, ret, key, value) ==
    /\ ret = Object_get(pre, key)
    /\ Object_get(post, key) = Some(value)
    /\ Object_len(post) =
          Object_len(pre) + (IF Object_get(pre, key) = None THEN 1 ELSE 0)
    /\ \A k2 \in NativeKeys :
          OtherKey(k2, key) => Object_get(post, k2) = Object_get(pre, k2)

RemovedAsMap(pre, post, ret, key) ==
    /\ ret = Object_get(pre, key)
    /\ ~Object_contains_key(post, key)
    /\ \A k2 \in NativeKeys :
          OtherKey(k2, key) =>
              /\ Object_get(post, k2) = Object_get(pre, k2)
              /\ Object_contains_key(post, k2) = Object_contains_key(pre, k2)

\* C6: on an Object of either backing, insert(k, v) returns what get(k)
\* returned just before, afterwards get(k) is Some(v), len() has grown by
\* one iff k was absent and get of every other key is unchanged; remove(k)
\* returns the stored value, makes contains_key(k) false and leaves the
\* other keys unchanged.
C6_MapInsert ==
    /\ ocall.op = "insert" =>
          /\ InsertedAsMap(ocall.preS, objS, ocall.retS, ocall.key, ocall.value)
          /\ InsertedAsMap(ocall.preH, objH, ocall.retH, ocall.key, ocall.value)
    /\ ocall.op = "remove" =>
          /\ RemovedAsMap(ocall.preS, objS, ocall.retS, ocall.key)
          /\ RemovedAsMap(ocall.preH, objH, ocall.retH, ocall.key)

\* A remove has taken a present key out of Objects that keep other entries.
C6_Witness ==
    /\ ocall.op = "remove"
    /\ is_some(ocall.retH)
    /\ Object_len(ocall.preH) = 3
    /\ Object_len(objH) = 2
    /\ Object_len(objS) = 2

UnchangedAt(pre, post, key) == Object_get(post, key) = Object_get(pre, key)

\* C8: to_value_key() of a String or a &str, digits or not, is a
\* String-variant ValueKey with the same characters, and only a usize gives
\* ValueKey::Number; so an insert under the usize key n leaves get of the
\* string key that spells n as it was, and an insert under a string key
\* leaves get of the usize key it spells as it was.
C8_KeyCoercion ==
    /\ \A key \in NativeKeys :
          /\ key.type \in {"String", "str"} =>
                to_value_key(key) = ValueKeyString(key.s)
          /\ to_value_key(key).kind = "Number" <=> key.type = "usize"
    /\ (ocall.op = "insert" /\ ocall.key.type = "usize") =>
          LET spelled == usize_to_string(ocall.key.n) IN
          /\ UnchangedAt(ocall.preS, objS, KeyOfStr(spelled))
          /\ UnchangedAt(ocall.preH, objH, KeyOfStr(spelled))
          /\ UnchangedAt(ocall.preS, objS, KeyOfString(spelled))
          /\ UnchangedAt(ocall.preH, objH, KeyOfString(spelled))
    /\ (ocall.op = "insert" /\ ocall.key.type # "usize") =>
          \A n \in KeyUsizes :
              usize_to_string(n) = ocall.key.s =>
                  /\ UnchangedAt(ocall.preS, objS, KeyOfUsize(n))
                  /\ UnchangedAt(ocall.preH, objH, KeyOfUsize(n))

\* A value went in under the usize key 10 while the string key "10" holds
\* another value, and get with the string key still returns that other one.
C8_Witness ==
    /\ ocall.op = "insert"
    /\ ocall.key = KeyOfUsize(10)
    /\ is_some(Object_get(objS, KeyOfStr(<<"1", "0">>)))
    /\ Object_get(objS, KeyOfStr(<<"1", "0">>)) # Some(ocall.value)
    /\ Object_get(objH, KeyOfUsize(10)) = Some(ocall.value)

\* C11: the backing is chosen at construction and never changes:
\* Object::from(BTreeMap) is sorted-backed, Object::from(HashMap),
\* Object::from(Vec of pairs) and Object::default() are hash-backed, and
\* after every get, get_mut, insert, remove, clean, keys, values and iter
\* call each Object has the backing it had before the call.
C11_BackingFixed ==
    /\ ocall.op = "from" =>
          /\ ocall.ctorS = "BTreeMap" /\ objS.backing = "BTreeMap"
          /\ ocall.ctorH \in {"HashMap", "Vec", "default"} /\ objH.backing = "HashMap"
    /\ ocall.op # "from" =>
          /\ objS.backing = ocall.preS.backing
          /\ objH.backing = ocall.preH.backing
    /\ objS.backing = "BTreeMap"
    /\ objH.backing = "HashMap"

\* An iteration has run over the three entries of each Object, and each
\* still has its backing.
C11_Witness ==
    /\ ocall.op = "iter"
    /\ Len(ocall.retS) = 3
    /\ Len(ocall.retH) = 3
    /\ objS.backing = "BTreeMap"
    /\ objH.backing = "HashMap"

(***************************************************************************)
(* Array                                                                   *)
(***************************************************************************)
\* struct Array { values: Vec<Value> }
ArrayOf(values) == [values |-> values]

Array_new == ArrayOf(<<>>)

\* Vec::get: indices count from 0
Array_get(a, index) ==
    IF index < Len(a.values) THEN Some(a.values[index + 1]) ELSE None

Array_get_mut(a, index) ==
    IF index < Len(a.values) THEN Some(a.values[index + 1]) ELSE None

Array_clean(a) == ArrayOf(<<>>)

Array_push(a, value) == ArrayOf(Append(a.values, value))

Array_len(a) == Len(a.values)

Array_is_empty(a) == a.values = <<>>

Array_pop_mut(a) ==
    IF a.values = <<>> THEN [arr |-> a, ret |-> None]
    ELSE [arr |-> ArrayOf(Tail(a.values)), ret |-> Some(Head(a.values))]

\* Vec::pop: takes the last element, None on an empty vector
Array_pop(a) ==
    IF a.values = <<>> THEN [arr |-> a, ret |-> None]
    ELSE [arr |-> ArrayOf(SubSeq(a.values, 1, Len(a.values) - 1)),
          ret |-> Some(a.values[Len(a.values)])]

(***************************************************************************)
(* The operations of Value.  A call either completes, with the receiver    *)
(* after it and what it returned, or panics.                               *)
(***************************************************************************)
Ok(v, ret) == [outcome |-> "ok", val |-> v, ret |-> ret]
Panic == [outcome |-> "panic"]
\* What a call that changes nothing gives: its return, or a panic.
Returned(ret) == [outcome |-> "ok", ret |-> ret]
Unit == "()"

Value_get(v, key) ==
    IF v.tag = "Object" THEN Ok(v, Object_get(v.obj, key))
    ELSE IF v.tag = "Array" THEN Ok(v, Array_get(v.arr, as_usize(key)))
    ELSE Panic

Value_get_mut(v, key) ==
    IF v.tag = "Object" THEN Ok(v, Object_get_mut(v.obj, key))
    ELSE IF v.tag = "Array" THEN Ok(v, Array_get_mut(v.arr, as_usize(key)))
    ELSE Panic

Value_clean(v) ==
    IF v.tag = "Array" THEN Ok(ValueArray(Array_clean(v.arr)), Unit)
    ELSE IF v.tag = "Object" THEN Ok(ValueObject(Object_clean(v.obj)), Unit)
    ELSE IF v.tag = "Number" THEN Ok(ValueNumber(clean(v.n)), Unit)
    ELSE Panic

Value_len_mut(v) ==
    IF v.tag = "Array" THEN Ok(v, Array_len(v.arr))
    ELSE IF v.tag = "Object" THEN Ok(v, Object_len(v.obj))
    ELSE Panic

\* StringB::len is the number of bytes
Value_len(v) ==
    IF v.tag = "Array" THEN Ok(v, Array_len(v.arr))
    ELSE IF v.tag = "Object" THEN Ok(v, Object_len(v.obj))
    ELSE IF v.tag = "String" THEN Ok(v, Len(v.s))
    ELSE Panic

Value_is_empty(v) ==
    IF v.tag = "Array" THEN Ok(v, Array_is_empty(v.arr))
    ELSE IF v.tag = "Object" THEN Ok(v, Object_is_empty(v.obj))
    ELSE IF v.tag = "String" THEN Ok(v, Len(v.s) = 0)
    ELSE Panic

\* push(x): x.to_value() of a Value is the Value
Value_push(v, x) ==
    IF v.tag = "Array" THEN Ok(ValueArray(Array_push(v.arr, x)), Unit)
    ELSE Panic

Value_insert(v, key, x) ==
    IF v.tag = "Object"
    THEN LET r == Object_insert(v.obj, key, x) IN Ok(ValueObject(r.obj), r.ret)
    ELSE Panic

Value_remove(v, key) ==
    IF v.tag = "Object"
    THEN LET r == Object_remove(v.obj, key) IN Ok(ValueObject(r.obj), r.ret)
    ELSE Panic

Value_contains_key(v, key) ==
    IF v.tag = "Object" THEN Ok(v, Object_contains_key(v.obj, key))
    ELSE Panic

\* keys() and values(): the outcomes the call can have
Value_keys(v) ==
    IF v.tag = "Object" THEN {Ok(v, ks) : ks \in Object_keys(v.obj)}
    ELSE {Panic}

Value_values(v) ==
    IF v.tag = "Object" THEN {Ok(v, vs) : vs \in Object_values(v.obj)}
    ELSE {Panic}

Value_pop(v) ==
    IF v.tag = "Array"
    THEN LET r == Array_pop(v.arr) IN Ok(ValueArray(r.arr), r.ret)
    ELSE Panic

Value_get_num_mut(v, X) ==
    IF v.tag = "Number" THEN Ok(v, get_slot(v.n, X)) ELSE Ok(v, None)

\* get_X(), X given by name
Value_get_num(v, X) ==
    IF v.tag = "Number" THEN Ok(v, get_slot(v.n, X)) ELSE Panic

\* get_X_unsafe(), X given by name
Value_get_num_unsafe(v, X) ==
    IF v.tag = "Number"
    THEN LET r == get_unsafe(v.n, X)
         IN IF r.outcome = "ok" THEN Ok(v, r.ret) ELSE Panic
    ELSE Panic

(***************************************************************************)
(* A Value under calls                                                     *)
(***************************************************************************)
MaxLen == 4

\* The keys and the values the calls are made with.
ArgKeys == {KeyOfStr(<<"a">>), KeyOfString(<<"7">>), KeyOfUsize(0)}
ArgVals == ObjVals

\* The Values the calls start from: every variant, the containers empty and
\* filled, Numbers with no, one and two slots populated.
InitValues ==
    LET one == ValueNumber(Number_from("i32", IntV(FALSE, <<1>>)))
        five == Number_from("i32", IntV(FALSE, <<5>>))
    IN {ValueNull, ValueUndefined, ValueBoolean(TRUE),
        ValueString(<<>>), ValueString(<<"h", "i">>),
        ValueDateTime(<<"2", "0", "2", "3", "-", "0", "4", "-", "0", "5">>),
        ValueNumber(NumberDefault), ValueNumber(five),
        ValueNumber(set(NumberDefault, "f64", FloatV(FALSE, <<3, 1, 4>>, -2))),
        ValueNumber(set(five, "u8", IntV(FALSE, <<5>>))),
        ValueArray(Array_new),
        ValueArray(ArrayOf(<<one, ValueBoolean(TRUE), one>>)),
        ValueObject(Object_default),
        ValueObject(Object_from_BTreeMap(
            [k \in {KeyOfStr(<<"a">>)} |-> ValueBoolean(TRUE)]))}

\* No call has panicked: a panic ends the run.
Running ==
    IF calls = <<>> THEN TRUE ELSE calls[Len(calls)].res.outcome # "panic"

\* The last call and the one before it.
History(cs, c) == IF cs = <<>> THEN <<c>> ELSE <<cs[Len(cs)], c>>

\* The call op(args) was made on val with outcome r.
Called(op, args, r) ==
    /\ Running
    /\ val' = (IF r.outcome = "ok" THEN r.val ELSE val)
    /\ calls' = History(calls, [op |-> op, args |-> args, pre |-> val, res |-> r])
    /\ UNCHANGED <<number, ncalls, objS, objH, ocall, arg, out>>

ValueInit ==
    /\ val \in InitValues
    /\ calls = <<>>
    /\ NumberIdle
    /\ ObjectIdle
    /\ ConversionIdle

ValGet ==
    \E key \in ArgKeys : Called("get", [key |-> key], Value_get(val, key))

ValGetMut ==
    \E key \in ArgKeys : Called("get_mut", [key |-> key], Value_get_mut(val, key))

ValClean == Called("clean", <<>>, Value_clean(val))

ValLen == Called("len", <<>>, Value_len(val))

ValIsEmpty == Called("is_empty", <<>>, Value_is_empty(val))

ValPush ==
    /\ IF val.tag = "Array" THEN Array_len(val.arr) < MaxLen ELSE TRUE
    /\ \E x \in ArgVals : Called("push", [value |-> x], Value_push(val, x))

ValInsert ==
    \E key \in ArgKeys : \E x \in ArgVals :
        Called("insert", [key |-> key, value |-> x], Value_insert(val, key, x))

ValRemove ==
    \E key \in ArgKeys : Called("remove", [key |-> key], Value_remove(val, key))

ValContainsKey ==
    \E key \in ArgKeys :
        Called("contains_key", [key |-> key], Value_contains_key(val, key))

ValKeys == \E r \in Value_keys(val) : Called("keys", <<>>, r)

ValValues == \E r \in Value_values(val) : Called("values", <<>>, r)

ValPop == Called("pop", <<>>, Value_pop(val))

ValGetNum ==
    \E i \in 1..Len(Widths) :
        Called("get_num", [X |-> Widths[i]], Value_get_num(val, Widths[i]))

ValGetNumUnsafe ==
    \E i \in 1..Len(Widths) :
        Called("get_num_unsafe", [X |-> Widths[i]],
               Value_get_num_unsafe(val, Widths[i]))

ValueNext ==
    \/ ValGet \/ ValGetMut \/ ValClean \/ ValLen \/ ValIsEmpty
    \/ ValPush \/ ValInsert \/ ValRemove \/ ValContainsKey
    \/ ValKeys \/ ValValues \/ ValPop
    \/ ValGetNum \/ ValGetNumUnsafe

SpecValue == ValueInit /\ [][ValueNext]_vars

\* C4: for every width X, get_X() on a Value panics whenever the Value is
\* not the Number variant and on a Number returns the content of slot X,
\* Some(n) or None, without panicking; get_X_unsafe() panics as well on a
\* Number whose slot X is empty, and otherwise returns the slot's number.
C4_NumericAccessors ==
    \A i \in 1..Len(calls) :
        LET c == calls[i] IN
        /\ c.op = "get_num" =>
              /\ c.res.outcome = "panic" <=> c.pre.tag # "Number"
              /\ c.pre.tag = "Number" => c.res.ret = c.pre.n[c.args.X]
        /\ c.op = "get_num_unsafe" =>
              /\ c.res.outcome = "panic" <=>
                    (c.pre.tag # "Number" \/ c.pre.n[c.args.X] = None)
              /\ c.res.outcome = "ok" => Some(c.res.ret) = c.pre.n[c.args.X]

\* get_i32() returned Some(5) on a Number and get_u8_unsafe() then panicked
\* on its empty u8 slot.
C4_Witness ==
    /\ Len(calls) = 2
    /\ calls[1].op = "get_num"
    /\ calls[1].args.X = "i32"
    /\ calls[1].res.outcome = "ok"
    /\ calls[1].res.ret = Some(IntV(FALSE, <<5>>))
    /\ calls[2].op = "get_num_unsafe"
    /\ calls[2].args.X = "u8"
    /\ calls[2].pre.tag = "Number"
    /\ calls[2].res.outcome = "panic"

ContainerOps ==
    {"get", "get_mut", "insert", "remove", "contains_key", "keys", "values",
     "push", "pop", "len", "is_empty", "clean"}

\* The variants each container operation is stated to accept.
Allowed(op) ==
    CASE op \in {"get", "get_mut"} -> {"Object", "Array"}
      [] op \in {"insert", "remove", "contains_key", "keys", "values"} ->
            {"Object"}
      [] op \in {"push", "pop"} -> {"Array"}
      [] op \in {"len", "is_empty"} -> {"Array", "Object", "String"}
      [] op = "clean" -> {"Array", "Object", "Number"}

\* C5: get and get_mut complete exactly on Object and Array; insert, remove,
\* contains_key, keys and values exactly on Object; push and pop exactly on
\* Array; len and is_empty exactly on Array, Object and String; clean
\* exactly on Array, Object and Number; on every other variant the call
\* panics, and no call that completes changes the variant of the Value.
C5_VariantGuard ==
    \A i \in 1..Len(calls) :
        LET c == calls[i] IN
        c.op \in ContainerOps =>
            /\ c.res.outcome = "ok" <=> c.pre.tag \in Allowed(c.op)
            /\ c.res.outcome = "panic" <=> c.pre.tag \notin Allowed(c.op)
            /\ c.res.outcome = "ok" => c.res.val.tag = c.pre.tag

\* len() completed on a String and insert then panicked on it.
C5_Witness ==
    /\ Len(calls) = 2
    /\ calls[1].op = "len"
    /\ calls[1].pre.tag = "String"
    /\ calls[1].res.outcome = "ok"
    /\ calls[1].res.ret = 2
    /\ calls[2].op = "insert"
    /\ calls[2].res.outcome = "panic"
    /\ val.tag = "String"

\* The arrays the push-then-pop law is stated over.
SampleArrays ==
    {ArrayOf(vs) : vs \in UNION {[1..n -> ArgVals] : n \in 0..MaxLen}}

\* C7: on every Array and every Array-variant Value, push(v) followed by
\* pop() returns Some(v) and leaves the array as it was before the push;
\* pop() on an empty array returns None and leaves it empty.
C7_PushPop ==
    /\ \A a \in SampleArrays : \A v \in ArgVals :
          Array_pop(Array_push(a, v)) = [arr |-> a, ret |-> Some(v)]
    /\ Array_pop(Array_new) = [arr |-> Array_new, ret |-> None]
    /\ (/\ Len(calls) = 2
        /\ calls[1].op = "push" /\ calls[1].res.outcome = "ok"
        /\ calls[2].op = "pop" /\ calls[2].res.outcome = "ok") =>
          /\ calls[2].res.ret = Some(calls[1].args.value)
          /\ val = calls[1].pre
    /\ \A i \in 1..Len(calls) :
          (calls[i].op = "pop" /\ calls[i].pre = ValueArray(Array_new)) =>
              /\ calls[i].res.outcome = "ok"
              /\ calls[i].res.ret = None
              /\ calls[i].res.val = ValueArray(Array_new)

\* A fourth element was pushed on an array of three and popped again.
C7_Witness ==
    /\ Len(calls) = 2
    /\ calls[1].op = "push"
    /\ calls[1].pre.tag = "Array"
    /\ Array_len(calls[1].pre.arr) = 3
    /\ calls[1].args.value = ValueBoolean(TRUE)
    /\ calls[2].op = "pop"
    /\ calls[2].res.ret = Some(ValueBoolean(TRUE))
    /\ Array_len(val.arr) = 3

(***************************************************************************)
(* Parsing numbers: str::parse::<T>() and TryFrom<&str> for Number         *)
(***************************************************************************)
IsDigit(c) == c \in {"0", "1", "2", "3", "4", "5", "6", "7", "8", "9"}
DigitOf(c) == CharCode(c) - 48

RECURSIVE StripZeros(_)
StripZeros(ds) ==
    IF ds = <<>> THEN ds
    ELSE IF ds[1] = 0 THEN StripZeros(Tail(ds)) ELSE ds

RECURSIVE StripZerosRight(_)
StripZerosRight(ds) ==
    IF ds = <<>> THEN ds
    ELSE IF ds[Len(ds)] = 0 THEN StripZerosRight(SubSeq(ds, 1, Len(ds) - 1))
    ELSE ds

\* a < b on digit sequences of equal length
RECURSIVE LexLess(_, _)
LexLess(a, b) ==
    IF a = <<>> THEN FALSE
    ELSE IF a[1] # b[1] THEN a[1] < b[1]
    ELSE LexLess(Tail(a), Tail(b))

\* a <= b on magnitudes without leading zeros
MagLeq(a, b) ==
    IF Len(a) # Len(b) THEN Len(a) < Len(b) ELSE ~LexLess(b, a)

\* T::MAX of the integer types
IntMax == [
    u8 |-> <<2, 5, 5>>,
    u16 |-> <<6, 5, 5, 3, 5>>,
    u32 |-> <<4, 2, 9, 4, 9, 6, 7, 2, 9, 5>>,
    u64 |->
        <<1, 8, 4, 4, 6, 7, 4, 4, 0, 7, 3, 7, 0, 9, 5, 5, 1, 6, 1, 5>>,
    u128 |->
        <<3, 4, 0, 2, 8, 2, 3, 6, 6, 9, 2, 0, 9, 3, 8, 4, 6, 3, 4, 6, 3, 3, 7, 4, 6, 0, 7, 4, 3, 1, 7, 6, 8, 2, 1, 1, 4, 5, 5>>,
    i8 |-> <<1, 2, 7>>,
    i16 |-> <<3, 2, 7, 6, 7>>,
    i32 |-> <<2, 1, 4, 7, 4, 8, 3, 6, 4, 7>>,
    i64 |->
        <<9, 2, 2, 3, 3, 7, 2, 0, 3, 6, 8, 5, 4, 7, 7, 5, 8, 0, 7>>,
    i128 |->
        <<1, 7, 0, 1, 4, 1, 1, 8, 3, 4, 6, 0, 4, 6, 9, 2, 3, 1, 7, 3, 1, 6, 8, 7, 3, 0, 3, 7, 1, 5, 8, 8, 4, 1, 0, 5, 7, 2, 7>>]

\* the magnitude of T::MIN of the signed types
IntMinMag == [
    i8 |-> <<1, 2, 8>>,
    i16 |-> <<3, 2, 7, 6, 8>>,
    i32 |-> <<2, 1, 4, 7, 4, 8, 3, 6, 4, 8>>,
    i64 |->
        <<9, 2, 2, 3, 3, 7, 2, 0, 3, 6, 8, 5, 4, 7, 7, 5, 8, 0, 8>>,
    i128 |->
        <<1, 7, 0, 1, 4, 1, 1, 8, 3, 4, 6, 0, 4, 6, 9, 2, 3, 1, 7, 3, 1, 6, 8, 7, 3, 0, 3, 7, 1, 5, 8, 8, 4, 1, 0, 5, 7, 2, 8>>]

IsSigned(X) == X \in {"i8", "i16", "i32", "i64", "i128"}
IsFloat(X) == X \in {"f32", "f64"}

ParseOk(v) == [ok |-> TRUE, value |-> v]
ParseErr(kind) == [ok |-> FALSE, err |-> kind]

\* str::parse::<X>() for an integer type X: an optional sign ("-" only for
\* the signed types), then decimal digits only, then the range of X
parse_int(src, X) ==
    IF src = <<>> THEN ParseErr("Empty")
    ELSE IF Len(src) = 1 /\ src[1] \in {"+", "-"} THEN ParseErr("InvalidDigit")
    ELSE LET is_positive == ~(src[1] = "-" /\ IsSigned(X))
             digits == IF src[1] = "+" \/ ~is_positive THEN Tail(src) ELSE src
         IN IF \E i \in 1..Len(digits) : ~IsDigit(digits[i])
            THEN ParseErr("InvalidDigit")
            ELSE LET mag == StripZeros([i \in 1..Len(digits) |-> DigitOf(digits[i])])
                 IN IF is_positive
                    THEN IF MagLeq(mag, IntMax[X]) THEN ParseOk(IntV(FALSE, mag))
                         ELSE ParseErr("PosOverflow")
                    ELSE IF MagLeq(mag, IntMinMag[X])
                         THEN ParseOk(IntV(mag # <<>>, mag))
                         ELSE ParseErr("NegOverflow")

\* The number of digits of s from position `from` on, up to the first
\* character that is not one.
RECURSIVE DigitRun(_, _)
DigitRun(s, from) ==
    IF from > Len(s) THEN 0
    ELSE IF IsDigit(s[from]) THEN 1 + DigitRun(s, from + 1)
    ELSE 0

RECURSIVE DigitsToNat(_)
DigitsToNat(ds) ==
    IF ds = <<>> THEN 0
    ELSE 10 * DigitsToNat(SubSeq(ds, 1, Len(ds) - 1)) + ds[Len(ds)]

ToLower(c) ==
    IF c \in {"A", "B", "C", "D", "E", "F", "G", "H", "I", "J", "K", "L", "M",
              "N", "O", "P", "Q", "R", "S", "T", "U", "V", "W", "X", "Y", "Z"}
    THEN Ascii[CharCode(c) + 32 - 31]
    ELSE c

FloatInf(neg) == [neg |-> neg, inf |-> TRUE]
FloatNaN == [nan |-> TRUE]

\* The float of neg digits * 10^e: zero and the trailing zeros normalised,
\* beyond the largest finite magnitude infinity, below the smallest zero.
FloatOf(neg, digits, e, X) ==
    LET lead == StripZeros(digits)
        mant == StripZerosRight(lead)
        exp == e + (Len(lead) - Len(mant))
        top == Len(mant) + exp
        limit == IF X = "f64" THEN 309 ELSE 39
        floor == IF X = "f64" THEN -323 ELSE -45
        big == IF X = "f64" THEN <<1, 7, 9, 7, 6, 9, 3, 1, 3, 4, 8, 6, 2, 3, 1, 5, 8>>
               ELSE <<3, 4, 0, 2, 8, 2, 3, 5, 6, 7>>
        pad == [i \in 1..Len(big) |-> IF i <= Len(mant) THEN mant[i] ELSE 0]
    IN IF mant = <<>> THEN FloatV(neg, <<>>, 0)
       ELSE IF top > limit \/ (top = limit /\ ~LexLess(pad, big)) THEN FloatInf(neg)
       ELSE IF top < floor THEN FloatV(neg, <<>>, 0)
       ELSE FloatV(neg, mant, exp)

\* str::parse::<X>() for a float type X: an optional sign, then "inf",
\* "infinity" or "nan" in any case, or digits with an optional point and an
\* optional exponent, at least one digit before or after the point
parse_float(src, X) ==
    IF src = <<>> THEN ParseErr("Empty")
    ELSE
    LET negative == src[1] = "-"
        s == IF src[1] \in {"+", "-"} THEN Tail(src) ELSE src
        nInt == DigitRun(s, 1)
        hasDot == nInt < Len(s) /\ s[nInt + 1] = "."
        nFrac == IF hasDot THEN DigitRun(s, nInt + 2) ELSE 0
        mantEnd == nInt + (IF hasDot THEN 1 + nFrac ELSE 0)
        hasExp == mantEnd < Len(s) /\ s[mantEnd + 1] \in {"e", "E"}
        expSigned == hasExp /\ mantEnd + 2 <= Len(s) /\ s[mantEnd + 2] \in {"+", "-"}
        expStart == IF expSigned THEN mantEnd + 3 ELSE mantEnd + 2
        nExp == IF hasExp THEN DigitRun(s, expStart) ELSE 0
        consumed == IF hasExp THEN expStart - 1 + nExp ELSE mantEnd
        valid == /\ nInt + nFrac > 0
                 /\ hasExp => nExp > 0
                 /\ consumed = Len(s)
        lower == [i \in 1..Len(s) |-> ToLower(s[i])]
    IN IF s = <<>> THEN ParseErr("Invalid")
       ELSE IF valid
       THEN LET digit(i) == DigitOf(s[i])
                intDigits == [i \in 1..nInt |-> digit(i)]
                fracDigits == [i \in 1..nFrac |-> digit(nInt + 1 + i)]
                expDigits == [i \in 1..nExp |-> digit(expStart - 1 + i)]
                expMag == DigitsToNat(StripZeros(expDigits))
                exponent == IF expSigned /\ s[mantEnd + 2] = "-" THEN -expMag ELSE expMag
            IN ParseOk(FloatOf(negative, intDigits \o fracDigits, exponent - nFrac, X))
       ELSE IF lower \in {<<"i", "n", "f">>, <<"i", "n", "f", "i", "n", "i", "t", "y">>}
       THEN ParseOk(FloatInf(negative))
       ELSE IF lower = <<"n", "a", "n">> THEN ParseOk(FloatNaN)
       ELSE ParseErr("Invalid")

parse_mut(value, X) ==
    IF X = "f64" THEN ParseErr("Invalid")
    ELSE IF IsFloat(X) THEN parse_float(value, X) ELSE parse_int(value, X)

\* value.parse::<X>(), X given by name
parse(value, X) ==
    IF IsFloat(X) THEN parse_float(value, X) ELSE parse_int(value, X)

NumberOk(n) == [ok |-> TRUE, number |-> n]
NotNumber == [ok |-> FALSE, err |-> "NotNumber"]

try_from_mut(value) ==
    IF parse(value, "f64").ok
    THEN NumberOk(Number_from("f64", parse(value, "f64").value))
    ELSE NotNumber

\* Number::try_from(value: &str)
try_from(value) ==
    IF parse(value, "i32").ok
    THEN NumberOk(Number_from("i32", parse(value, "i32").value))
    ELSE IF parse(value, "f64").ok
    THEN NumberOk(Number_from("f64", parse(value, "f64").value))
    ELSE IF parse(value, "i8").ok
    THEN NumberOk(Number_from("i8", parse(value, "i8").value))
    ELSE IF parse(value, "i16").ok
    THEN NumberOk(Number_from("i16", parse(value, "i16").value))
    ELSE IF parse(value, "i64").ok
    THEN NumberOk(Number_from("i64", parse(value, "i64").value))
    ELSE IF parse(value, "i128").ok
    THEN NumberOk(Number_from("i128", parse(value, "i128").value))
    ELSE IF parse(value, "u8").ok
    THEN NumberOk(Number_from("u8", parse(value, "u8").value))
    ELSE IF parse(value, "u16").ok
    THEN NumberOk(Number_from("u16", parse(value, "u16").value))
    ELSE IF parse(value, "u32").ok
    THEN NumberOk(Number_from("u32", parse(value, "u32").value))
    ELSE IF parse(value, "u64").ok
    THEN NumberOk(Number_from("u64", parse(value, "u64").value))
    ELSE IF parse(value, "u128").ok
    THEN NumberOk(Number_from("u128", parse(value, "u128").value))
    ELSE IF parse(value, "f32").ok
    THEN NumberOk(Number_from("f32", parse(value, "f32").value))
    ELSE NotNumber

MaxStrLen == 3

\* The characters the short inputs are made of.
Alphabet == {"3", "0", "-", "+", ".", "e", "x"}

\* Inputs at the limits of the integer types, the documented examples,
\* special floats and malformed numbers.
Literals ==
    {
     <<"3", "0", "0">>,
     <<"3", ".", "1", "4">>,
     <<"4", "2">>,
     <<"4", "2", ".", "0">>,
     <<"i", "n", "v", "a", "l", "i", "d">>,
     <<"2", "1", "4", "7", "4", "8", "3", "6", "4", "7">>,
     <<"2", "1", "4", "7", "4", "8", "3", "6", "4", "8">>,
     <<"3", "0", "0", "0", "0", "0", "0", "0", "0", "0">>,
     <<"-", "2", "1", "4", "7", "4", "8", "3", "6", "4", "8">>,
     <<"-", "2", "1", "4", "7", "4", "8", "3", "6", "4", "9">>,
     <<"-", "1", "2", "9">>,
     <<"2", "5", "6">>,
     <<"1", "8", "4", "4", "6", "7", "4", "4", "0", "7", "3", "7", "0", "9", "5", "5", "1", "6", "1", "6">>,
     <<"1", "7", "0", "1", "4", "1", "1", "8", "3", "4", "6", "0", "4", "6", "9", "2", "3", "1", "7", "3", "1", "6", "8", "7", "3", "0", "3", "7", "1", "5", "8", "8", "4", "1", "0", "5", "7", "2", "8">>,
     <<"3", "4", "0", "2", "8", "2", "3", "6", "6", "9", "2", "0", "9", "3", "8", "4", "6", "3", "4", "6", "3", "3", "7", "4", "6", "0", "7", "4", "3", "1", "7", "6", "8", "2", "1", "1", "4", "5", "6">>,
     <<"i", "n", "f">>,
     <<"N", "a", "N">>,
     <<"-", "i", "n", "f", "i", "n", "i", "t", "y">>,
     <<"1", "e", "9", "9", "9">>,
     <<"3", "E", "-", "2">>,
     <<" ", "3">>,
     <<"3", " ">>,
     <<"0", "x", "1", "0">>,
     <<"-", "0", "0", "7">>,
     <<"+", ".", "5", "e", "+", "3">>}

\* The strings handed to try_from: every string over Alphabet up to
\* MaxStrLen characters, and the Literals.
TryFromInputs ==
    UNION {[1..n -> Alphabet] : n \in 0..MaxStrLen} \cup Literals

TryFromInit ==
    /\ arg \in TryFromInputs
    /\ out = [done |-> FALSE]
    /\ NumberIdle
    /\ ValueIdle
    /\ ObjectIdle

\* Number::try_from(arg)
TryFrom ==
    /\ ~out.done
    /\ out' = [done |-> TRUE, res |-> try_from(arg)]
    /\ UNCHANGED <<number, ncalls, val, calls, objS, objH, ocall, arg>>

SpecTryFrom == TryFromInit /\ [][TryFrom]_vars

\* The order in which the parses are stated to be tried.
ParseOrder ==
    <<"i32", "f64", "i8", "i16", "i64", "i128",
      "u8", "u16", "u32", "u64", "u128", "f32">>

\* The Number with slot X holding v and every other slot empty.
OnlySlot(X, v) == [w \in WidthSet |-> IF w = X THEN Some(v) ELSE None]

\* C9: Number::try_from(&str) returns the Number whose only populated slot
\* is that of the first parse to succeed in the order i32, f64, i8, i16,
\* i64, i128, u8, u16, u32, u64, u128, f32, holding that parse's value (so
\* "300" populates only i32 and "3.14" only f64), and Err(NotNumber) iff
\* all twelve parses fail.
C9_ParseOrder ==
    out.done =>
        LET firsts == {i \in 1..Len(ParseOrder) :
                          /\ parse(arg, ParseOrder[i]).ok
                          /\ \A j \in 1..(i - 1) : ~parse(arg, ParseOrder[j]).ok}
        IN /\ out.res = NotNumber <=> firsts = {}
           /\ \A i \in firsts :
                 out.res = NumberOk(OnlySlot(ParseOrder[i],
                                             parse(arg, ParseOrder[i]).value))
           /\ arg = <<"3", "0", "0">> =>
                 out.res = NumberOk(OnlySlot("i32", IntV(FALSE, <<3, 0, 0>>)))
           /\ arg = <<"3", ".", "1", "4">> =>
                 out.res = NumberOk(OnlySlot("f64", FloatV(FALSE, <<3, 1, 4>>, -2)))

\* try_from("2147483648") has run: the i32 parse overflowed and the f64
\* parse, next in the order, gave the Number.
C9_Witness ==
    /\ out.done
    /\ arg = <<"2", "1", "4", "7", "4", "8", "3", "6", "4", "8">>
    /\ ~parse(arg, "i32").ok
    /\ parse(arg, "i64").ok
    /\ out.res.ok
    /\ is_slot(out.res.number, "f64")

(***************************************************************************)
(* From<usize> for Number.  A usize has 64 bits and is the sequence of its *)
(* four 16-bit limbs, most significant first, so that a cast to a narrower *)
(* type truncates.                                                         *)
(***************************************************************************)
Limb == 2^16

LimbLeq(a, b) == ~LexLess(b, a)

RECURSIVE NatToDigits(_)
NatToDigits(n) ==
    IF n = 0 THEN <<>> ELSE Append(NatToDigits(n \div 10), n % 10)

\* the decimal digits of ds * m + a
RECURSIVE DecMulAdd(_, _, _)
DecMulAdd(ds, m, a) ==
    IF ds = <<>> THEN NatToDigits(a)
    ELSE LET t == ds[Len(ds)] * m + a
         IN Append(DecMulAdd(SubSeq(ds, 1, Len(ds) - 1), m, t \div 10), t % 10)

\* the decimal digits of the number a limb sequence holds
RECURSIVE LimbsToDigits(_)
LimbsToDigits(ls) ==
    IF ls = <<>> THEN <<>>
    ELSE DecMulAdd(LimbsToDigits(SubSeq(ls, 1, Len(ls) - 1)), Limb, ls[Len(ls)])

\* `T::MAX as usize`: the wider maxima truncate to 64 bits, the float maxima
\* saturate
MaxAsUsize == [
    u8 |-> <<0, 0, 0, 2^8 - 1>>,
    u16 |-> <<0, 0, 0, Limb - 1>>,
    u32 |-> <<0, 0, Limb - 1, Limb - 1>>,
    u64 |-> <<Limb - 1, Limb - 1, Limb - 1, Limb - 1>>,
    u128 |-> <<Limb - 1, Limb - 1, Limb - 1, Limb - 1>>,
    i8 |-> <<0, 0, 0, 2^7 - 1>>,
    i16 |-> <<0, 0, 0, 2^15 - 1>>,
    i32 |-> <<0, 0, 2^15 - 1, Limb - 1>>,
    i64 |-> <<2^15 - 1, Limb - 1, Limb - 1, Limb - 1>>,
    i128 |-> <<Limb - 1, Limb - 1, Limb - 1, Limb - 1>>,
    f32 |-> <<Limb - 1, Limb - 1, Limb - 1, Limb - 1>>,
    f64 |-> <<Limb - 1, Limb - 1, Limb - 1, Limb - 1>>]

BitsOf(X) ==
    CASE X \in {"u8", "i8"} -> 8
      [] X \in {"u16", "i16"} -> 16
      [] X \in {"u32", "i32"} -> 32
      [] X \in {"u64", "i64"} -> 64
      [] X \in {"u128", "i128"} -> 128

\* the low `bits` bits of i
Truncate(i, bits) ==
    CASE bits = 8 -> <<0, 0, 0, i[4] % 2^8>>
      [] bits = 16 -> <<0, 0, 0, i[4]>>
      [] bits = 32 -> <<0, 0, i[3], i[4]>>
      [] bits >= 64 -> i

\* 2^bits - t for a t of `bits` bits with its top bit set
RECURSIVE Complement(_, _)
Complement(t, bits) ==
    IF bits = 8 THEN <<0, 0, 0, 2^8 - t[4]>>
    ELSE LET k == bits \div 16
             inv == [j \in 1..4 |-> IF j > 4 - k THEN Limb - 1 - t[j] ELSE 0]
             low == CHOOSE j \in 0..4 : /\ \A h \in (j + 1)..4 : inv[h] = Limb - 1
                                        /\ j > 0 => inv[j] < Limb - 1
         IN [j \in 1..4 |-> IF j > low THEN 0
                            ELSE IF j = low THEN inv[j] + 1 ELSE inv[j]]

\* `i as X` for an integer type X: truncation to the width of X, read in
\* two's complement for a signed X
CastInt(i, X) ==
    LET bits == BitsOf(X)
        t == Truncate(i, bits)
        top == IF bits = 8 THEN t[4] >= 2^7
               ELSE IF bits > 64 THEN FALSE
               ELSE t[5 - (bits \div 16)] >= 2^15
    IN IF IsSigned(X) /\ top
       THEN IntV(TRUE, LimbsToDigits(Complement(t, bits)))
       ELSE IntV(FALSE, LimbsToDigits(t))

\* `i as X` for a float type X: the float nearest to i, i itself while i
\* has no more significant bits than the mantissa of X
CastFloat(i, X) == FloatOf(FALSE, LimbsToDigits(i), 0, X)

from_usize_mut(i) ==
    IF LimbLeq(i, MaxAsUsize["u16"]) THEN Number_from("u8", CastInt(i, "u8"))
    ELSE IF LimbLeq(i, MaxAsUsize["u32"]) THEN Number_from("u32", CastInt(i, "u32"))
    ELSE Number_from("u64", CastInt(i, "u64"))

\* Number::from(i: usize)
from_usize(i) ==
    IF LimbLeq(i, MaxAsUsize["u8"]) THEN Number_from("u8", CastInt(i, "u8"))
    ELSE IF LimbLeq(i, MaxAsUsize["u16"]) THEN Number_from("u16", CastInt(i, "u16"))
    ELSE IF LimbLeq(i, MaxAsUsize["u32"]) THEN Number_from("u32", CastInt(i, "u32"))
    ELSE IF LimbLeq(i, MaxAsUsize["u64"]) THEN Number_from("u64", CastInt(i, "u64"))
    ELSE IF LimbLeq(i, MaxAsUsize["u128"]) THEN Number_from("u128", CastInt(i, "u128"))
    ELSE IF LimbLeq(i, MaxAsUsize["i8"]) THEN Number_from("i8", CastInt(i, "i8"))
    ELSE IF LimbLeq(i, MaxAsUsize["i16"]) THEN Number_from("i16", CastInt(i, "i16"))
    ELSE IF LimbLeq(i, MaxAsUsize["i32"]) THEN Number_from("i32", CastInt(i, "i32"))
    ELSE IF LimbLeq(i, MaxAsUsize["i64"]) THEN Number_from("i64", CastInt(i, "i64"))
    ELSE IF LimbLeq(i, MaxAsUsize["i128"]) THEN Number_from("i128", CastInt(i, "i128"))
    ELSE IF LimbLeq(i, MaxAsUsize["f32"]) THEN Number_from("f32", CastFloat(i, "f32"))
    ELSE IF LimbLeq(i, MaxAsUsize["f64"]) THEN Number_from("f64", CastFloat(i, "f64"))
    ELSE Number_from("f64", CastFloat(i, "f64"))

\* The limbs the inputs are made of: around the ends of the 8-bit and the
\* 16-bit range.
LimbVals == {0, 1, 2^8 - 1, 2^8, 2^15, Limb - 1}

FromUsizeInit ==
    /\ arg \in [1..4 -> LimbVals]
    /\ out = [done |-> FALSE]
    /\ NumberIdle
    /\ ValueIdle
    /\ ObjectIdle

\* Number::from(arg)
FromUsize ==
    /\ ~out.done
    /\ out' = [done |-> TRUE, res |-> from_usize(arg)]
    /\ UNCHANGED <<number, ncalls, val, calls, objS, objH, ocall, arg>>

SpecFromUsize == FromUsizeInit /\ [][FromUsize]_vars

\* C10: Number::from(n: usize) populates exactly one slot: u8 for n <= 255,
\* u16 for n <= 65535, u32 for n <= 2^32-1 and u64 otherwise, never a
\* signed or a float slot, and the slot holds n itself.
C10_FromUsize ==
    out.done =>
        LET n == LimbsToDigits(arg)
            X == IF MagLeq(n, <<2, 5, 5>>) THEN "u8"
                 ELSE IF MagLeq(n, <<6, 5, 5, 3, 5>>) THEN "u16"
                 ELSE IF MagLeq(n, <<4, 2, 9, 4, 9, 6, 7, 2, 9, 5>>) THEN "u32"
                 ELSE "u64"
        IN /\ out.res = OnlySlot(X, IntV(FALSE, n))
           /\ \A w \in WidthSet :
                 (IsSigned(w) \/ IsFloat(w)) => ~is_slot(out.res, w)

\* Number::from(65536usize) has run and populated u32.
C10_Witness ==
    /\ out.done
    /\ arg = <<0, 0, 1, 0>>
    /\ out.res = OnlySlot("u32", IntV(FALSE, <<6, 5, 5, 3, 6>>))

(***************************************************************************)
(* JSON text from a Value (to/json.rs).  A HashMap hands out its entries   *)
(* in any order, so the text of a Value is one of a set of texts.          *)
(***************************************************************************)
\* a signed integer as Display writes it
IntToString(i) ==
    IF i.mag = <<>> THEN <<"0">>
    ELSE (IF i.neg THEN <<"-">> ELSE <<>>)
             \o [k \in 1..Len(i.mag) |-> Ascii[17 + i.mag[k]]]

\* a float as Display writes it: no exponent, no fraction when it is whole
FloatToString(f) ==
    IF "nan" \in DOMAIN f THEN <<"N", "a", "N">>
    ELSE LET sign == IF f.neg THEN <<"-">> ELSE <<>> IN
         IF "inf" \in DOMAIN f THEN sign \o <<"i", "n", "f">>
         ELSE IF f.mant = <<>> THEN sign \o <<"0">>
         ELSE LET ds == [k \in 1..Len(f.mant) |-> Ascii[17 + f.mant[k]]]
                  n == Len(ds)
              IN IF f.exp >= 0 THEN sign \o ds \o [k \in 1..f.exp |-> "0"]
                 ELSE IF -f.exp < n
                 THEN sign \o SubSeq(ds, 1, n + f.exp) \o <<".">>
                          \o SubSeq(ds, n + f.exp + 1, n)
                 ELSE sign \o <<"0", ".">> \o [k \in 1..(-f.exp - n) |-> "0"] \o ds

\* Display for Number: the number of the only populated slot, and
\* "Unknown" when no slot or more than one is populated
Number_to_string(n) ==
    LET populated == {w \in WidthSet : n[w] # None} IN
    IF Cardinality(populated) = 1
    THEN LET w == CHOOSE w \in populated : TRUE
         IN IF IsFloat(w) THEN FloatToString(unwrap(n[w]))
            ELSE IntToString(unwrap(n[w]))
    ELSE <<"U", "n", "k", "n", "o", "w", "n">>

\* Value::tabs
tabs(total) == [k \in 1..total |-> "\t"]

\* [String]::join
RECURSIVE join(_, _)
join(list, sep) ==
    IF list = <<>> THEN <<>>
    ELSE IF Len(list) = 1 THEN list[1]
    ELSE list[1] \o sep \o join(Tail(list), sep)

\* The sequences that take their i-th element from the i-th set.
RECURSIVE Choices(_)
Choices(sets) ==
    IF sets = <<>> THEN {<<>>}
    ELSE {<<x>> \o rest : x \in sets[1], rest \in Choices(Tail(sets))}

\* body applied to the value x
With(x, body(_)) == body(x)

\* The bytes of a character in UTF-8.  Two characters outside ASCII are
\* spelled out: "eacute" (U+00E9, two bytes) and "euro" (U+20AC, three).
Utf8Len(c) == IF c = "eacute" THEN 2 ELSE IF c = "euro" THEN 3 ELSE 1

\* The byte offset in the string of its character at index p (from 0): what
\* the range of a regex match starts at.
RECURSIVE ByteOffset(_, _)
ByteOffset(list, p) ==
    IF p = 0 THEN 0 ELSE ByteOffset(list, p - 1) + Utf8Len(list[p])

\* Vec::insert(index, element): a panic when index is beyond the length
Vec_insert(vec, index, element) ==
    IF index > Len(vec) THEN Panic
    ELSE Returned(SubSeq(vec, 1, index) \o <<element>> \o SubSeq(vec, index + 1, Len(vec)))

\* The loop over the quotes of a string, from the character at index p (from
\* 0) on: range.start is the byte offset of the quote; a backslash is put
\* into result at range.start + add_posi, unless the element of list (the
\* characters) at range.start - 1 is a backslash; list.get(..).unwrap()
\* panics beyond the characters.  add_posi counts the backslashes put so far.
RECURSIVE EscapeFrom(_, _, _, _)
EscapeFrom(list, p, result, add_posi) ==
    IF p >= Len(list) THEN Returned(result)
    ELSE IF list[p + 1] # "\"" THEN EscapeFrom(list, p + 1, result, add_posi)
    ELSE With(ByteOffset(list, p), LAMBDA start :
           IF start # 0 /\ start - 1 >= Len(list) THEN Panic
           ELSE IF start = 0 \/ list[start] # "\\"
           THEN With(Vec_insert(result, start + add_posi, "\\"), LAMBDA inserted :
                  IF inserted = Panic THEN Panic
                  ELSE EscapeFrom(list, p + 1, inserted.ret, add_posi + 1))
           ELSE EscapeFrom(list, p + 1, result, add_posi))

\* Whether Value::to_json_inner(val, _) panics: in the String arm, of val or
\* of a Value it holds.
RECURSIVE to_json_panics(_)
to_json_panics(v) ==
    CASE v.tag = "String" -> EscapeFrom(v.s, 0, v.s, 0) = Panic
      [] v.tag = "Array" -> \E i \in DOMAIN v.arr.values : to_json_panics(v.arr.values[i])
      [] v.tag = "Object" ->
           \E es \in Object_iter(v.obj) : \E i \in DOMAIN es : to_json_panics(es[i][2])
      [] OTHER -> FALSE

\* Value::to_json_inner(val, children): the texts it can produce, when it
\* does not panic
RECURSIVE to_json_inner(_, _)
to_json_inner(v, children) ==
    CASE v.tag = "Object" ->
           UNION {
             LET entry(i) ==
                     {<<"\n", "\t">> \o tabs(children) \o <<"\"">>
                          \o ValueKey_to_string(es[i][1]) \o <<"\"", ":", " ">> \o t :
                        t \in to_json_inner(es[i][2], children + 1)}
             IN {<<"{">> \o join(contents, <<",">>) \o <<"\n">> \o tabs(children)
                     \o <<"}">> :
                   contents \in Choices([i \in DOMAIN es |-> entry(i)])} :
             es \in Object_iter(v.obj)}
      [] v.tag = "Array" ->
           {<<"[", "\n", "\t">> \o tabs(children)
                \o join(contents, <<",", "\n", "\t">> \o tabs(children))
                \o <<"\n">> \o tabs(children) \o <<"]">> :
              contents \in Choices([i \in DOMAIN v.arr.values |->
                                      to_json_inner(v.arr.values[i], children + 1)])}
      [] v.tag = "String" ->
           {<<"\"">> \o EscapeFrom(v.s, 0, v.s, 0).ret \o <<"\"">>}
      [] v.tag = "Number" -> {Number_to_string(v.n)}
      [] v.tag = "Boolean" ->
           {IF v.b THEN <<"t", "r", "u", "e">> ELSE <<"f", "a", "l", "s", "e">>}
      [] v.tag = "Null" -> {<<"n", "u", "l", "l">>}
      [] v.tag = "Undefined" -> {<<"u", "n", "d", "e", "f", "i", "n", "e", "d">>}
      [] v.tag = "DateTime" -> {<<"\"">> \o v.dt \o <<"\"">>}

inline_mut(value) == SelectSeq(value, LAMBDA c : c # "\n")

\* Value::inline: the text without its newlines and tabs
inline(value) == SelectSeq(value, LAMBDA c : c \notin {"\n", "\t"})

to_json_mut(v, mode) ==
    IF to_json_panics(v) THEN {Panic} ELSE to_json_inner(v, 0)

\* Value::to_json(mode): the texts it can return, or a panic
to_json(v, mode) ==
    IF to_json_panics(v) THEN {Panic}
    ELSE IF mode = "Inline" THEN {inline(value) : value \in to_json_inner(v, 0)}
    ELSE to_json_inner(v, 0)

(***************************************************************************)
(* The JSON grammar (parser/value.pest): object, array, string, number,    *)
(* boolean and null, whitespace allowed between the tokens of an object    *)
(* and of an array.  A rule applied at position i of a text either fails   *)
(* or gives its pair (rule, matched text, inner pairs) and the position    *)
(* after it.                                                               *)
(***************************************************************************)
Pair(rule, str, inner) == [rule |-> rule, str |-> str, inner |-> inner]
Matched(pair, pos) == [ok |-> TRUE, pair |-> pair, pos |-> pos]
NoMatch == [ok |-> FALSE]

\* WHITESPACE = _{ " " | "\t" | "\r" | "\n" }
IsWhitespace(c) == c \in {" ", "\t", "\r", "\n"}

RECURSIVE SkipWhitespace(_, _)
SkipWhitespace(s, i) ==
    IF i > Len(s) THEN i
    ELSE IF IsWhitespace(s[i]) THEN SkipWhitespace(s, i + 1)
    ELSE i

\* The text s has lit at position i.
StartsWith(s, i, lit) ==
    /\ i + Len(lit) - 1 <= Len(s)
    /\ SubSeq(s, i, i + Len(lit) - 1) = lit

IsHex(c) ==
    IsDigit(c) \/ c \in {"a", "b", "c", "d", "e", "f", "A", "B", "C", "D", "E", "F"}

\* inner = @{ char* }: the position after the longest run of characters
\* that are neither a quote nor a backslash, or an escape (a backslash and
\* one of " \ / b f n r t, or a backslash, u and four hex digits)
RECURSIVE Rule_inner(_, _)
Rule_inner(s, i) ==
    IF i > Len(s) THEN i
    ELSE IF s[i] \notin {"\"", "\\"} THEN Rule_inner(s, i + 1)
    ELSE IF s[i] = "\"" THEN i
    ELSE IF i + 1 <= Len(s) /\ s[i + 1] \in {"\"", "\\", "/", "b", "f", "n", "r", "t"}
    THEN Rule_inner(s, i + 2)
    ELSE IF /\ i + 5 <= Len(s)
            /\ s[i + 1] = "u"
            /\ \A k \in 2..5 : IsHex(s[i + k])
    THEN Rule_inner(s, i + 6)
    ELSE i

\* string = ${ "\"" ~ inner ~ "\"" }
Rule_string(s, i) ==
    IF i > Len(s) THEN NoMatch
    ELSE IF s[i] # "\"" THEN NoMatch
    ELSE LET j == Rule_inner(s, i + 1) IN
         IF j > Len(s) THEN NoMatch
         ELSE IF s[j] # "\"" THEN NoMatch
         ELSE Matched(Pair("string", SubSeq(s, i, j),
                           <<Pair("inner", SubSeq(s, i + 1, j - 1), <<>>)>>),
                      j + 1)

\* number = @{ "-"? ~ ("0" | ASCII_NONZERO_DIGIT ~ ASCII_DIGIT*)
\*             ~ ("." ~ ASCII_DIGIT*)? ~ (^"e" ~ ("+" | "-")? ~ ASCII_DIGIT+)? }
Rule_number(s, i) ==
    LET a == IF i <= Len(s) /\ s[i] = "-" THEN i + 1 ELSE i
        nInt == IF a <= Len(s) /\ s[a] = "0" THEN 1 ELSE DigitRun(s, a)
        b == a + nInt
        c == IF b <= Len(s) /\ s[b] = "." THEN b + 1 + DigitRun(s, b + 1) ELSE b
        hasE == c <= Len(s) /\ s[c] \in {"e", "E"}
        d == IF hasE /\ c + 1 <= Len(s) /\ s[c + 1] \in {"+", "-"} THEN c + 2 ELSE c + 1
        nExp == IF hasE THEN DigitRun(s, d) ELSE 0
        e == IF nExp > 0 THEN d + nExp ELSE c
    IN IF nInt = 0 THEN NoMatch
       ELSE Matched(Pair("number", SubSeq(s, i, e - 1), <<>>), e)

\* boolean = { "true" | "false" }
Rule_boolean(s, i) ==
    IF StartsWith(s, i, <<"t", "r", "u", "e">>)
    THEN Matched(Pair("boolean", <<"t", "r", "u", "e">>, <<>>), i + 4)
    ELSE IF StartsWith(s, i, <<"f", "a", "l", "s", "e">>)
    THEN Matched(Pair("boolean", <<"f", "a", "l", "s", "e">>, <<>>), i + 5)
    ELSE NoMatch

\* null = { "null" }
Rule_null(s, i) ==
    IF StartsWith(s, i, <<"n", "u", "l", "l">>)
    THEN Matched(Pair("null", <<"n", "u", "l", "l">>, <<>>), i + 4)
    ELSE NoMatch

\* The first match of the alternatives, in their order.
FirstMatch(alternatives) ==
    IF \E k \in DOMAIN alternatives : alternatives[k].ok
    THEN alternatives[CHOOSE k \in DOMAIN alternatives :
                         /\ alternatives[k].ok
                         /\ \A j \in 1..(k - 1) : ~alternatives[j].ok]
    ELSE NoMatch

RECURSIVE Rule_value(_, _)
RECURSIVE Rule_pair(_, _)
RECURSIVE Rule_rest(_, _, _, _)
RECURSIVE Rule_collection(_, _, _, _, _)

\* pair = { string ~ ":" ~ value }
Rule_pair(s, i) ==
    With(Rule_string(s, i), LAMBDA name :
      IF ~name.ok THEN NoMatch
      ELSE With(SkipWhitespace(s, name.pos), LAMBDA colon :
        IF ~StartsWith(s, colon, <<":">>) THEN NoMatch
        ELSE With(Rule_value(s, SkipWhitespace(s, colon + 1)), LAMBDA v :
          IF ~v.ok THEN NoMatch
          ELSE Matched(Pair("pair", SubSeq(s, i, v.pos - 1), <<name.pair, v.pair>>),
                       v.pos))))

\* item ~ ("," ~ item)* ~ close, after the opening bracket: the items are
\* pairs in an object and values in an array
Rule_rest(s, i, close, inner) ==
    With(IF close = "}" THEN Rule_pair(s, i) ELSE Rule_value(s, i), LAMBDA item :
      IF ~item.ok THEN NoMatch
      ELSE With(SkipWhitespace(s, item.pos), LAMBDA j :
        IF StartsWith(s, j, <<",">>)
        THEN Rule_rest(s, SkipWhitespace(s, j + 1), close, Append(inner, item.pair))
        ELSE IF StartsWith(s, j, <<close>>)
        THEN [ok |-> TRUE, inner |-> Append(inner, item.pair), pos |-> j + 1]
        ELSE NoMatch))

\* object = { "{" ~ "}" | "{" ~ pair ~ ("," ~ pair)* ~ "}" }
\* array = { "[" ~ "]" | "[" ~ value ~ ("," ~ value)* ~ "]" }
Rule_collection(s, i, rule, open, close) ==
    IF ~StartsWith(s, i, <<open>>) THEN NoMatch
    ELSE With(SkipWhitespace(s, i + 1), LAMBDA j :
      IF StartsWith(s, j, <<close>>)
      THEN Matched(Pair(rule, SubSeq(s, i, j), <<>>), j + 1)
      ELSE With(Rule_rest(s, j, close, <<>>), LAMBDA r :
        IF ~r.ok THEN NoMatch
        ELSE Matched(Pair(rule, SubSeq(s, i, r.pos - 1), r.inner), r.pos)))

\* value = _{ object | array | string | number | boolean | null }
Rule_value(s, i) ==
    FirstMatch(<<Rule_collection(s, i, "object", "{", "}"),
                 Rule_collection(s, i, "array", "[", "]"),
                 Rule_string(s, i),
                 Rule_number(s, i),
                 Rule_boolean(s, i),
                 Rule_null(s, i)>>)

\* json = _{ SOI ~ value ~ EOI }
Rule_json(s) ==
    With(Rule_value(s, SkipWhitespace(s, 1)), LAMBDA v :
      IF ~v.ok THEN NoMatch
      ELSE IF SkipWhitespace(s, v.pos) = Len(s) + 1 THEN v
      ELSE NoMatch)

(***************************************************************************)
(* Value from JSON text (parser/mod.rs)                                    *)
(***************************************************************************)
\* Value::parse_value(pair)
RECURSIVE parse_value(_)
parse_value(pair) ==
    CASE pair.rule = "object" ->
           LET name(i) == pair.inner[i].inner[1].inner[1].str
               value(i) == parse_value(pair.inner[i].inner[2])
               names == {name(i) : i \in DOMAIN pair.inner}
               last(n) == CHOOSE i \in DOMAIN pair.inner :
                             /\ name(i) = n
                             /\ \A j \in DOMAIN pair.inner : name(j) = n => j <= i
               map == [k \in {KeyOfString(n) : n \in names} |-> value(last(k.s))]
           IN ValueObject(Object_from_HashMap(map))
      [] pair.rule = "array" ->
           ValueArray(ArrayOf([i \in DOMAIN pair.inner |-> parse_value(pair.inner[i])]))
      [] pair.rule = "string" -> ValueString(pair.inner[1].str)
      [] pair.rule = "number" ->
           With(try_from(pair.str), LAMBDA r :
             IF r.ok THEN ValueNumber(r.number) ELSE Panic)
      [] pair.rule = "boolean" -> ValueBoolean(pair.str = <<"t", "r", "u", "e">>)
      [] pair.rule = "null" -> ValueNull
      [] OTHER -> ValueUndefined

\* str::trim
RECURSIVE trim(_)
trim(str) ==
    IF str = <<>> THEN str
    ELSE IF IsWhitespace(str[1]) THEN trim(Tail(str))
    ELSE IF IsWhitespace(str[Len(str)]) THEN trim(SubSeq(str, 1, Len(str) - 1))
    ELSE str

\* Value::payload_to_value(str)
payload_to_value(str) ==
    With(Rule_json(trim(str)), LAMBDA pairs :
      IF pairs.ok THEN [ok |-> TRUE, value |-> parse_value(pairs.pair)]
      ELSE [ok |-> FALSE, err |-> "NonParsebleMsg"])

(***************************************************************************)
(* A Value printed and parsed again                                        *)
(***************************************************************************)
\* Strings, with and without a quote, and Numbers of several widths, whole
\* and fractional.
JsonScalars ==
    {ValueNull, ValueBoolean(TRUE), ValueBoolean(FALSE),
     ValueString(<<>>), ValueString(<<"o", "k">>), ValueString(<<"a", "\"", "b">>),
     ValueNumber(Number_from("i32", IntV(FALSE, <<>>))),
     ValueNumber(Number_from("i32", IntV(TRUE, <<7>>))),
     ValueNumber(Number_from("u8", IntV(FALSE, <<5>>))),
     ValueNumber(Number_from("i64", IntV(FALSE, <<4, 2, 9, 4, 9, 6, 7, 2, 9, 6>>))),
     ValueNumber(Number_from("f64", FloatV(FALSE, <<3, 1, 4>>, -2))),
     ValueNumber(Number_from("f64", FloatV(FALSE, <<1>>, 0)))}

\* The values held by the containers.
JsonItems ==
    {ValueNull, ValueBoolean(TRUE), ValueString(<<"o", "k">>),
     ValueNumber(Number_from("i32", IntV(TRUE, <<7>>))),
     ValueNumber(Number_from("f64", FloatV(FALSE, <<3, 1, 4>>, -2))),
     ValueArray(Array_new),
     ValueArray(ArrayOf(<<ValueBoolean(TRUE), ValueNull>>)),
     ValueObject(Object_default),
     ValueObject(Object_from_HashMap(
         [k \in {KeyOfStr(<<"x">>)} |-> ValueBoolean(FALSE)]))}

\* The maps with string keys the Objects are built from.
JsonMaps ==
    UNION {[D -> JsonItems] : D \in SUBSET {KeyOfStr(<<"a">>), KeyOfStr(<<"b">>)}}

\* The Values printed: no Undefined and no DateTime.
JsonValues ==
    JsonScalars
        \cup {ValueArray(ArrayOf(vs)) : vs \in UNION {[1..n -> JsonItems] : n \in 0..2}}
        \cup {ValueObject(Object_from_HashMap(m)) : m \in JsonMaps}
        \cup {ValueObject(Object_from_BTreeMap(m)) : m \in JsonMaps}
        \cup {ValueObject(Object_from_HashMap(
                  [k \in {KeyOfUsize(7)} |-> ValueNull]))}

JsonInit ==
    /\ arg \in JsonValues
    /\ out = [done |-> FALSE]
    /\ NumberIdle
    /\ ValueIdle
    /\ ObjectIdle

\* text = arg.to_json(mode), or the panic that ends the program
ToJson ==
    /\ out = [done |-> FALSE]
    /\ \E mode \in {"Indented", "Inline"} :
          IF to_json_panics(arg)
          THEN out' = [done |-> TRUE, mode |-> mode, res |-> Panic]
          ELSE \E text \in to_json(arg, mode) :
                  out' = [done |-> FALSE, mode |-> mode, text |-> text]
    /\ UNCHANGED <<number, ncalls, val, calls, objS, objH, ocall, arg>>

\* Value::payload_to_value(text)
PayloadToValue ==
    /\ ~out.done
    /\ out # [done |-> FALSE]
    /\ out' = [done |-> TRUE, mode |-> out.mode, text |-> out.text,
               res |-> payload_to_value(out.text)]
    /\ UNCHANGED <<number, ncalls, val, calls, objS, objH, ocall, arg>>

JsonNext == ToJson \/ PayloadToValue

SpecJson == JsonInit /\ [][JsonNext]_vars

\* C3: for every Value v made of String, Number, Boolean, Null, Array and
\* Object only, parsing the indented serialization gives back v:
\* payload_to_value(v.to_json(Indented)) == Ok(v).
C3_RoundTrip ==
    (out.done /\ out.mode = "Indented") => out.res = [ok |-> TRUE, value |-> arg]

(***************************************************************************)
(* DateTime (types/datetime.rs): a calendar date, a wall time or a UTC     *)
(* instant.  A date is its day number, a time its second of the day, an    *)
(* instant both; a Duration is a number of seconds.  chrono's + and - on   *)
(* a date or an instant panic when the result leaves the days a NaiveDate  *)
(* can hold.                                                               *)
(***************************************************************************)
\* The last and the first day a NaiveDate holds (the range, scaled down).
MaxDay == 3
MinDay == -MaxDay

SecsPerDay == 24 * 60 * 60

\* enum DateTime { Date(NaiveDate), Time(NaiveTime), DateTime(DateTime<Utc>) }
DateTimeDate(day) == [variant |-> "Date", day |-> day]
DateTimeTime(secs) == [variant |-> "Time", secs |-> secs]
DateTimeDateTime(day, secs) == [variant |-> "DateTime", day |-> day, secs |-> secs]

\* Integer division that rounds toward zero, as Rust's / does
TruncDiv(a, b) == IF a >= 0 THEN a \div b ELSE -((-a) \div b)

\* Duration::num_days()
num_days(duration) == TruncDiv(duration, SecsPerDay)

\* Duration::days(days)
Duration_days(days) == days * SecsPerDay

\* NaiveDate + Duration
NaiveDate_add(day, duration) ==
    LET sum == day + num_days(duration) IN
    IF sum \in MinDay..MaxDay THEN Returned(sum) ELSE Panic

\* DateTime<Utc> + Duration: the seconds carry into the day
ChDateTime_add(day, secs, duration) ==
    LET total == secs + duration
        sum == day + (total \div SecsPerDay)
    IN IF sum \in MinDay..MaxDay
       THEN Returned([day |-> sum, secs |-> total % SecsPerDay])
       ELSE Panic

add_duration_mut(self, duration) ==
    CASE self.variant = "Date" ->
           With(NaiveDate_add(self.day, Duration_days(num_days(duration))), LAMBDA r :
             IF r = Panic THEN Panic ELSE Returned(Some(DateTimeDate(r.ret))))
      [] self.variant = "Time" -> Returned(None)
      [] self.variant = "DateTime" ->
           With(ChDateTime_add(self.day, self.secs, Duration_days(num_days(duration))),
                LAMBDA r :
             IF r = Panic THEN Panic
             ELSE Returned(Some(DateTimeDateTime(r.ret.day, r.ret.secs))))

\* DateTime::add_duration(duration)
add_duration(self, duration) ==
    CASE self.variant = "Date" ->
           With(NaiveDate_add(self.day, Duration_days(num_days(duration))), LAMBDA r :
             IF r = Panic THEN Panic ELSE Returned(Some(DateTimeDate(r.ret))))
      [] self.variant = "Time" -> Returned(None)
      [] self.variant = "DateTime" ->
           With(ChDateTime_add(self.day, self.secs, duration), LAMBDA r :
             IF r = Panic THEN Panic
             ELSE Returned(Some(DateTimeDateTime(r.ret.day, r.ret.secs))))

\* DateTime::subtract_duration(duration)
subtract_duration(self, duration) ==
    CASE self.variant = "Date" ->
           With(NaiveDate_add(self.day, -Duration_days(num_days(duration))), LAMBDA r :
             IF r = Panic THEN Panic ELSE Returned(Some(DateTimeDate(r.ret))))
      [] self.variant = "Time" -> Returned(None)
      [] self.variant = "DateTime" ->
           With(ChDateTime_add(self.day, self.secs, -duration), LAMBDA r :
             IF r = Panic THEN Panic
             ELSE Returned(Some(DateTimeDateTime(r.ret.day, r.ret.secs))))

\* DateTime::duration_between(other)
duration_between(self, other) ==
    IF self.variant = "Date" /\ other.variant = "Date"
    THEN Returned(Some(Duration_days(num_days(Duration_days(other.day - self.day)))))
    ELSE IF self.variant = "DateTime" /\ other.variant = "DateTime"
    THEN Returned(Some((other.day - self.day) * SecsPerDay + (other.secs - self.secs)))
    ELSE Returned(None)

\* The seconds of the day the times are taken from.
SecsSamples == {0, 1, 12 * 3600 + 34 * 60 + 56, SecsPerDay - 1}

\* The values: every day as a date, the sample times, and both as instants.
DateTimes ==
    {DateTimeDate(day) : day \in MinDay..MaxDay}
        \cup {DateTimeTime(secs) : secs \in SecsSamples}
        \cup {DateTimeDateTime(day, secs) : day \in MinDay..MaxDay, secs \in SecsSamples}

\* The durations: zero, under a day, whole days, days and a remainder, of
\* both signs.
Durations ==
    {0, 1, -1, SecsPerDay - 1, 1 - SecsPerDay, SecsPerDay, -SecsPerDay,
     2 * SecsPerDay + 5, -(2 * SecsPerDay + 5), 6 * SecsPerDay}

DateTimeInit ==
    /\ arg \in [self : DateTimes, duration : Durations, other : DateTimes]
    /\ out = [done |-> FALSE]
    /\ NumberIdle
    /\ ValueIdle
    /\ ObjectIdle

\* self.add_duration(duration)
AddDuration ==
    /\ ~out.done
    /\ out' = [done |-> TRUE, op |-> "add_duration", self |-> arg.self, back |-> FALSE,
               res |-> add_duration(arg.self, arg.duration)]
    /\ UNCHANGED <<number, ncalls, val, calls, objS, objH, ocall, arg>>

\* self.subtract_duration(duration), on the value given or on what
\* add_duration has just returned
SubtractDuration ==
    /\ \E back \in BOOLEAN :
          /\ IF back
             THEN /\ out.done
                  /\ out.op = "add_duration"
                  /\ out.res # Panic
                  /\ out.res # Returned(None)
             ELSE ~out.done
          /\ LET self == IF back THEN unwrap(out.res.ret) ELSE arg.self IN
             out' = [done |-> TRUE, op |-> "subtract_duration", self |-> self,
                     back |-> back, res |-> subtract_duration(self, arg.duration)]
    /\ UNCHANGED <<number, ncalls, val, calls, objS, objH, ocall, arg>>

\* self.duration_between(&other)
DurationBetween ==
    /\ ~out.done
    /\ out' = [done |-> TRUE, op |-> "duration_between", self |-> arg.self,
               back |-> FALSE, res |-> duration_between(arg.self, arg.other)]
    /\ UNCHANGED <<number, ncalls, val, calls, objS, objH, ocall, arg>>

DateTimeNext == AddDuration \/ SubtractDuration \/ DurationBetween

SpecDateTime == DateTimeInit /\ [][DateTimeNext]_vars

\* The whole days of a duration of d seconds, rounded toward zero.
WholeDays(d) == IF d >= 0 THEN d \div SecsPerDay ELSE -((-d) \div SecsPerDay)

\* What shifting self by d seconds must give when the shifted value exists,
\* and whether it does: a date moves by the whole days of d, an instant by d.
Shifted(self, d) ==
    IF self.variant = "Date" THEN DateTimeDate(self.day + WholeDays(d))
    ELSE LET t == self.day * SecsPerDay + self.secs + d
         IN DateTimeDateTime(t \div SecsPerDay, t % SecsPerDay)

InRange(dt) == dt.day \in MinDay..MaxDay

\* The duration the last arithmetic call shifted by.
ShiftOf == IF out.op = "add_duration" THEN arg.duration ELSE -arg.duration

\* C12 as stated: add_duration(d) and subtract_duration(d) return None for a
\* Time, Some(Date) shifted by d.num_days() days for a Date and
\* Some(DateTime) shifted by d for a DateTime, always.
C12_Always ==
    (out.done /\ out.op \in {"add_duration", "subtract_duration"}) =>
        IF out.self.variant = "Time" THEN out.res = Returned(None)
        ELSE out.res = Returned(Some(Shifted(out.self, ShiftOf)))

\* C12: add_duration(d) and subtract_duration(d) return None for the Time
\* variant; for a Date they return Some(Date) shifted by exactly
\* d.num_days() whole days and for a DateTime Some(DateTime) shifted by the
\* full d, provided the shifted value is within the range of dates, and
\* panic when it is not; the result has the variant of the receiver, and
\* subtract_duration(d) on the result of add_duration(d) gives back the
\* original value.
C12_DurationArithmetic ==
    (out.done /\ out.op \in {"add_duration", "subtract_duration"}) =>
        /\ IF out.self.variant = "Time" THEN out.res = Returned(None)
           ELSE IF InRange(Shifted(out.self, ShiftOf))
           THEN /\ out.res = Returned(Some(Shifted(out.self, ShiftOf)))
                /\ unwrap(out.res.ret).variant = out.self.variant
           ELSE out.res = Panic
        /\ out.back => out.res = Returned(Some(arg.self))

\* A date went forward by the two whole days of a duration of two days and
\* five seconds and came back by them.
C12_Witness ==
    /\ out.done
    /\ out.op = "subtract_duration"
    /\ out.back
    /\ arg.self = DateTimeDate(0)
    /\ arg.duration = 2 * SecsPerDay + 5
    /\ out.self = DateTimeDate(2)
    /\ out.res = Returned(Some(DateTimeDate(0)))

\* C13: duration_between(a, b) returns Some whenever a and b are the same
\* variant (Date/Date, Time/Time, DateTime/DateTime) and None whenever
\* their variants differ; when defined it is b minus a, so
\* a.add_duration(a.duration_between(b)) == b.
C13_DurationBetween ==
    (out.done /\ out.op = "duration_between") =>
        IF arg.self.variant = arg.other.variant
        THEN /\ out.res # Returned(None)
             /\ add_duration(arg.self, unwrap(out.res.ret)) = Returned(Some(arg.other))
        ELSE out.res = Returned(None)

(***************************************************************************)
(* ValueKey::to_usize (types/value_key.rs)                                 *)
(***************************************************************************)
\* ValueKey::to_usize: a String key is parsed as a usize (64 bits) and the
\* result unwrapped, a Number key gives its number
to_usize(k) ==
    IF k.kind = "String"
    THEN With(parse_int(k.s, "u64"), LAMBDA r :
           IF r.ok THEN Returned(r.value) ELSE Panic)
    ELSE Returned(IntV(FALSE, NatToDigits(k.n)))

\* The keys: the short strings and the literals as String keys, and the
\* first numbers as Number keys.
MaxKeyNumber == 20
ToUsizeKeys ==
    {ValueKeyString(s) : s \in TryFromInputs}
        \cup {ValueKeyNumber(n) : n \in 0..MaxKeyNumber}

ToUsizeInit ==
    /\ arg \in ToUsizeKeys
    /\ out = [done |-> FALSE]
    /\ NumberIdle
    /\ ValueIdle
    /\ ObjectIdle

\* arg.to_usize()
ToUsize ==
    /\ ~out.done
    /\ out' = [done |-> TRUE, res |-> to_usize(arg)]
    /\ UNCHANGED <<number, ncalls, val, calls, objS, objH, ocall, arg>>

SpecToUsize == ToUsizeInit /\ [][ToUsize]_vars

\* C14: ValueKey::to_usize panics for every String-variant key, whatever
\* its content, and returns n for ValueKey::Number(n).
C14_ToUsize ==
    out.done =>
        IF arg.kind = "String" THEN out.res = Panic
        ELSE out.res = Returned(IntV(FALSE, NatToDigits(arg.n)))

(***************************************************************************)
(* Native values to a Value and back (to_value.rs, traits.rs and the       *)
(* derives of valu3_derive).  A native type is a record: [t |-> name] for  *)
(* bool, String and the numeric widths, [t, of] for Option, Vec, HashMap   *)
(* and BTreeMap (both keyed by String), [t, fields] for a struct with      *)
(* named fields and [t, variants] for an enum of unit variants.  A native  *)
(* value is a boolean, a string, a number, an Option, a sequence, or a     *)
(* function from the keys or the field names.                              *)
(***************************************************************************)
TypeOf(name) == [t |-> name]
OptionOf(U) == [t |-> "Option", of |-> U]
VecOf(U) == [t |-> "Vec", of |-> U]
HashMapOf(U) == [t |-> "HashMap", of |-> U]
BTreeMapOf(U) == [t |-> "BTreeMap", of |-> U]
StructOf(fields) == [t |-> "Struct", fields |-> fields]
EnumOf(variants) == [t |-> "Enum", variants |-> variants]

\* ToValueBehavior::to_value, by the type of the receiver
RECURSIVE to_value(_, _)
to_value(T, x) ==
    CASE T.t = "bool" -> ValueBoolean(x)
      [] T.t = "String" -> ValueString(x)
      [] T.t = "Option" -> IF x = None THEN ValueNull ELSE to_value(T.of, unwrap(x))
      [] T.t = "Vec" -> ValueArray(ArrayOf([i \in DOMAIN x |-> to_value(T.of, x[i])]))
      [] T.t \in {"HashMap", "BTreeMap"} ->
           ValueObject(Object_from_HashMap(
               [k \in {KeyOfString(name) : name \in DOMAIN x} |-> to_value(T.of, x[k.s])]))
      [] T.t = "Struct" ->
           ValueObject(Object_from_HashMap(
               [k \in {KeyOfString(T.fields[i][1]) : i \in DOMAIN T.fields} |->
                   LET i == CHOOSE i \in DOMAIN T.fields : T.fields[i][1] = k.s
                   IN to_value(T.fields[i][2], x[k.s])]))
      [] T.t = "Enum" -> ValueString(x)
      [] OTHER -> ValueNumber(Number_from(T.t, x))

\* ValueKey::as_string_b().as_string(): the text of the key
as_string_b(key) == ValueKey_to_string(key)

UnwrapAll_mut(cs) ==
    IF \E i \in DOMAIN cs : cs[i] = Panic \/ cs[i] = Returned(None) THEN Returned(None)
    ELSE Returned(Some([i \in DOMAIN cs |-> unwrap(cs[i].ret)]))

\* Iterator::map(|value| T::from_value(value).unwrap()).collect(): the
\* items of the conversions cs, or a panic when one of them is a panic or
\* None
UnwrapAll(cs) ==
    IF \E i \in DOMAIN cs : cs[i] = Panic \/ cs[i] = Returned(None) THEN Panic
    ELSE Returned(Some([i \in DOMAIN cs |-> unwrap(cs[i].ret)]))

\* fold(Map::new(), |map, (key, value)| map.insert(key, value)): the map of
\* the unwrapped items under the texts of their keys, a later entry
\* replacing an earlier one of the same text
FoldInsert(names, cs) ==
    With(UnwrapAll(cs), LAMBDA items :
      IF items = Panic \/ items = Returned(None) THEN items
      ELSE Returned(Some(
             [name \in {names[i] : i \in DOMAIN names} |->
                 LET last == CHOOSE i \in DOMAIN names :
                                /\ names[i] = name
                                /\ \A j \in DOMAIN names : names[j] = name => j <= i
                 IN unwrap(items.ret)[last]])))

\* FromValueBehavior::from_value, by the target type: the outcomes the call
\* can have (one, unless the entries of a hash-backed Object come in an
\* order that matters)
RECURSIVE from_value(_, _)
from_value(T, v) ==
    CASE T.t = "bool" ->
           {IF v.tag = "Boolean" THEN Returned(Some(v.b)) ELSE Returned(None)}
      [] T.t = "String" ->
           {IF v.tag = "String" THEN Returned(Some(v.s)) ELSE Returned(None)}
      [] T.t = "Option" ->
           IF v.tag = "Null" THEN {Returned(None)}
           ELSE {IF r = Panic THEN Panic ELSE Returned(Some(r.ret)) :
                   r \in from_value(T.of, v)}
      [] T.t = "Vec" ->
           IF v.tag = "Array"
           THEN {UnwrapAll(cs) :
                   cs \in Choices([i \in DOMAIN v.arr.values |->
                                     from_value(T.of, v.arr.values[i])])}
           ELSE {Returned(None)}
      [] T.t \in {"HashMap", "BTreeMap"} ->
           IF v.tag = "Object"
           THEN UNION {
                  {FoldInsert([i \in DOMAIN es |->
                                 IF T.t = "HashMap" THEN as_string_b(es[i][1])
                                 ELSE ValueKey_to_string(es[i][1])], cs) :
                     cs \in Choices([i \in DOMAIN es |-> from_value(T.of, es[i][2])])} :
                  es \in Object_iter(v.obj)}
           ELSE {Returned(None)}
      [] T.t = "Struct" ->
           IF v.tag = "Object"
           THEN LET item(i) == Object_get(v.obj, KeyOfStr(T.fields[i][1]))
                    absent(i) == item(i) = None
                    first == IF \E i \in DOMAIN T.fields : absent(i)
                             THEN (CHOOSE i \in DOMAIN T.fields :
                                     absent(i) /\ \A j \in 1..(i - 1) : ~absent(j)) - 1
                             ELSE Len(T.fields)
                IN {With(SelectSeq(cs, LAMBDA c : c = Panic \/ c = Returned(None)),
                         LAMBDA failed :
                      IF failed # <<>> /\ failed[1] = Panic THEN Panic
                      ELSE IF failed # <<>> \/ first < Len(T.fields) THEN Returned(None)
                      ELSE Returned(Some(
                             [name \in {T.fields[i][1] : i \in DOMAIN T.fields} |->
                                 LET i == CHOOSE i \in DOMAIN T.fields :
                                             T.fields[i][1] = name
                                 IN unwrap(cs[i].ret)]))) :
                      cs \in Choices([i \in 1..first |->
                                        from_value(T.fields[i][2], unwrap(item(i)))])}
           ELSE {Returned(None)}
      [] T.t = "Enum" ->
           {IF v.tag = "String" /\ \E i \in DOMAIN T.variants : T.variants[i] = v.s
            THEN Returned(Some(v.s)) ELSE Returned(None)}
      [] OTHER ->
           {IF v.tag = "Number" THEN Returned(get_slot(v.n, T.t)) ELSE Returned(None)}

\* struct Product { name: String, price: f32, active: bool }
Product ==
    StructOf(<<<<<<"n", "a", "m", "e">>, TypeOf("String")>>,
               <<<<"p", "r", "i", "c", "e">>, TypeOf("f32")>>,
               <<<<"a", "c", "t", "i", "v", "e">>, TypeOf("bool")>>>>)

\* enum ExampleType { Example1, Example2 }, the names shortened
ExampleType == EnumOf(<<<<"E", "1">>, <<"E", "2">>>>)

\* struct Inner { item_a: bool, tree: BTreeMap<String, String> }, a struct
\* that holds an Option and one that holds an enum
Inner ==
    StructOf(<<<<<<"i", "t", "e", "m", "_", "a">>, TypeOf("bool")>>,
               <<<<"t", "r", "e", "e">>, BTreeMapOf(TypeOf("String"))>>>>)
WithOption == StructOf(<<<<<<"c">>, OptionOf(TypeOf("i32"))>>>>)
WithEnum == StructOf(<<<<<<"e">>, ExampleType>>, <<<<"b">>, TypeOf("bool")>>>>)

\* The types with a from_value: bool, String and the twelve widths, the
\* collections and Option of some of them, nested once, and the derives.
ScalarTypes == {TypeOf(name) : name \in {"bool", "String"} \cup WidthSet}
ItemTypes == {TypeOf(name) : name \in {"bool", "String", "i32", "u8"}}
FromTypes ==
    ScalarTypes
        \cup {OptionOf(U) : U \in ItemTypes} \cup {VecOf(U) : U \in ItemTypes}
        \cup {HashMapOf(U) : U \in ItemTypes} \cup {BTreeMapOf(U) : U \in ItemTypes}
        \cup {VecOf(VecOf(TypeOf("i32"))), VecOf(OptionOf(TypeOf("i32"))),
              OptionOf(VecOf(TypeOf("String"))), HashMapOf(Inner),
              Product, ExampleType, Inner, WithOption, WithEnum}

\* Those with a to_value as well: u128 and i128 have none.
ToTypes == FromTypes \ {TypeOf("u128"), TypeOf("i128")}

MaxVec == 2
MapKeys == {<<"a">>, <<"b">>}

\* The native values of a type.
RECURSIVE Natives(_)
RECURSIVE StructNatives(_)
StructNatives(fields) ==
    IF fields = <<>> THEN {<<>>}
    ELSE {[name \in DOMAIN f \cup {fields[1][1]} |->
              IF name = fields[1][1] THEN x ELSE f[name]] :
            f \in StructNatives(Tail(fields)), x \in Natives(fields[1][2])}

Natives(T) ==
    CASE T.t = "bool" -> BOOLEAN
      [] T.t = "String" -> {<<>>, <<"h", "i">>}
      [] T.t = "Option" -> {None} \cup {Some(x) : x \in Natives(T.of)}
      [] T.t = "Vec" -> UNION {[1..n -> Natives(T.of)] : n \in 0..MaxVec}
      [] T.t \in {"HashMap", "BTreeMap"} ->
           UNION {[D -> Natives(T.of)] : D \in SUBSET MapKeys}
      [] T.t = "Struct" -> StructNatives(T.fields)
      [] T.t = "Enum" -> {T.variants[i] : i \in DOMAIN T.variants}
      [] OTHER -> Samples(T.t)

\* The Values from_value is given directly: every variant, arrays of one
\* and of mixed variants, Objects with String and Number keys, with keys of
\* the same text, and with the fields of Product.
GivenValues ==
    LET one == ValueNumber(Number_from("i32", IntV(FALSE, <<1>>)))
        hi == ValueString(<<"h", "i">>)
        price(X) == ValueNumber(Number_from(X, FloatV(FALSE, <<1, 9, 9>>, -2)))
        product(X) ==
            ValueObject(Object_from_HashMap(
                (KeyOfStr(<<"n", "a", "m", "e">>) :> hi)
                    @@ (KeyOfStr(<<"p", "r", "i", "c", "e">>) :> price(X))
                    @@ (KeyOfStr(<<"a", "c", "t", "i", "v", "e">>) :> ValueBoolean(TRUE))))
    IN InitValues
        \cup {ValueArray(ArrayOf(<<one, one>>)), ValueArray(ArrayOf(<<hi>>)),
              ValueArray(ArrayOf(<<one, ValueNull>>)),
              ValueArray(ArrayOf(<<ValueArray(ArrayOf(<<one>>)),
                                   ValueArray(ArrayOf(<<hi>>))>>)),
              ValueObject(Object_from_HashMap(
                  (KeyOfStr(<<"a">>) :> one) @@ (KeyOfStr(<<"b">>) :> hi))),
              ValueObject(Object_from_HashMap(
                  (KeyOfStr(<<"7">>) :> hi) @@ (KeyOfUsize(7) :> ValueString(<<>>)))),
              ValueObject(Object_from_HashMap(
                  (KeyOfStr(<<"c">>) :> ValueNull))),
              product("f32"), product("f64")}

\* The JSON texts of a Product: the members in the order of the fields, on
\* one line or on lines of their own, and what they spell out.
PriceLiterals ==
    {<<"1", ".", "9", "9">>, <<"0", ".", "5">>, <<"2", ".", "0">>, <<"1", "9", ".", "5">>}
ProductJsons ==
    {[name |-> name, price |-> price, active |-> active,
      text |-> <<"{">> \o gap \o <<"\"", "n", "a", "m", "e", "\"", ":", " ", "\"">> \o name
                 \o <<"\"", ",">> \o gap
                 \o <<"\"", "p", "r", "i", "c", "e", "\"", ":", " ">> \o price
                 \o <<",">> \o gap
                 \o <<"\"", "a", "c", "t", "i", "v", "e", "\"", ":", " ">>
                 \o (IF active THEN <<"t", "r", "u", "e">> ELSE <<"f", "a", "l", "s", "e">>)
                 \o gap \o <<"}">>] :
       name \in {<<"A", "p", "p", "l", "e">>, <<>>},
       price \in PriceLiterals,
       active \in BOOLEAN,
       gap \in {<<>>, <<"\n", " ", " ">>}}

\* A native value of some type, to be converted and converted back, or a
\* Value and the type it is to be converted to, or the JSON text of a
\* Product
ConvertInit ==
    /\ \/ \E T \in ToTypes : \E x \in Natives(T) :
             /\ arg = [type |-> T, native |-> Some(x)]
             /\ out = [done |-> FALSE]
       \/ \E T \in FromTypes : \E v \in GivenValues :
             /\ arg = [type |-> T, native |-> None]
             /\ out = [done |-> FALSE, value |-> v]
       \/ \E json \in ProductJsons :
             /\ arg = [type |-> Product, native |-> None, json |-> json]
             /\ out = [done |-> FALSE]
    /\ NumberIdle
    /\ ValueIdle
    /\ ObjectIdle

\* value = x.to_value()
ToValue ==
    /\ out = [done |-> FALSE]
    /\ arg.native # None
    /\ out' = [done |-> FALSE, value |-> to_value(arg.type, unwrap(arg.native))]
    /\ UNCHANGED <<number, ncalls, val, calls, objS, objH, ocall, arg>>

\* T::from_value(value)
FromValue ==
    /\ ~out.done
    /\ out # [done |-> FALSE]
    /\ \E res \in from_value(arg.type, out.value) :
          out' = [done |-> TRUE, value |-> out.value, res |-> res]
    /\ UNCHANGED <<number, ncalls, val, calls, objS, objH, ocall, arg>>

\* value = Value::payload_to_value(text), unwrapped as the test does
PayloadToProduct ==
    /\ out = [done |-> FALSE]
    /\ arg.native = None
    /\ With(payload_to_value(arg.json.text), LAMBDA r :
         /\ r.ok
         /\ out' = [done |-> FALSE, value |-> r.value])
    /\ UNCHANGED <<number, ncalls, val, calls, objS, objH, ocall, arg>>

ConvertNext == ToValue \/ FromValue \/ PayloadToProduct

SpecConvert == ConvertInit /\ [][ConvertNext]_vars
\* Whether converting v to the type T must give a value ("some"), None
\* ("none") or a panic, by the shape of v alone: a scalar wants its variant
\* (a numeric width its slot), a collection wants an Array or an Object and
\* panics on an item that does not give a value, an Option takes anything
\* but Null, a struct wants an Object and gives up at its first field that
\* is absent or gives no value.
RECURSIVE Expected(_, _)
Expected(T, v) ==
    CASE T.t = "bool" -> IF v.tag = "Boolean" THEN "some" ELSE "none"
      [] T.t = "String" -> IF v.tag = "String" THEN "some" ELSE "none"
      [] T.t = "Enum" ->
           IF v.tag = "String" /\ v.s \in {T.variants[i] : i \in DOMAIN T.variants}
           THEN "some" ELSE "none"
      [] T.t = "Option" ->
           IF v.tag = "Null" THEN "none"
           ELSE IF Expected(T.of, v) = "panic" THEN "panic" ELSE "some"
      [] T.t = "Vec" ->
           IF v.tag # "Array" THEN "none"
           ELSE IF \E i \in DOMAIN v.arr.values : Expected(T.of, v.arr.values[i]) # "some"
           THEN "panic" ELSE "some"
      [] T.t \in {"HashMap", "BTreeMap"} ->
           IF v.tag # "Object" THEN "none"
           ELSE IF \E es \in Object_iter(v.obj) : \E i \in DOMAIN es :
                      Expected(T.of, es[i][2]) # "some"
           THEN "panic" ELSE "some"
      [] T.t = "Struct" ->
           IF v.tag # "Object" THEN "none"
           ELSE LET field(i) == Object_get(v.obj, KeyOfStr(T.fields[i][1]))
                    of(i) == IF field(i) = None THEN "none"
                             ELSE Expected(T.fields[i][2], unwrap(field(i)))
                    bad == {i \in DOMAIN T.fields : of(i) # "some"}
                IN IF bad = {} THEN "some"
                   ELSE of(CHOOSE i \in bad : \A j \in bad : i <= j)
      [] OTHER ->
           IF v.tag = "Number" /\ v.n[T.t] # None THEN "some" ELSE "none"

\* What the call gave: a value, None or a panic.
Gave(res) ==
    IF res = Panic THEN "panic" ELSE IF res = Returned(None) THEN "none" ELSE "some"

\* C15: for every scalar target type T, T::from_value(v) returns None, and
\* does not panic, when v is not the variant or slot T expects;
\* Vec<T>::from_value and the HashMap and BTreeMap ones return None when v
\* is not an Array, respectively an Object, panic as soon as one contained
\* element fails T::from_value, and return Some of the converted collection
\* only when every element converts.
C15_FailureModes ==
    (out.done /\ arg.native = None) =>
        /\ Gave(out.res) = Expected(arg.type, out.value)
        /\ arg.type \in ScalarTypes => out.res # Panic
        /\ (arg.type.t = "Vec" /\ Gave(out.res) = "some") =>
              Len(unwrap(out.res.ret)) = Array_len(out.value.arr)
        /\ (arg.type.t \in {"HashMap", "BTreeMap"} /\ Gave(out.res) = "some") =>
              \A es \in Object_iter(out.value.obj) : \A i \in DOMAIN es :
                  ValueKey_to_string(es[i][1]) \in DOMAIN unwrap(out.res.ret)

\* Vec<i32>::from_value has panicked on an Array whose second item is a
\* Boolean.
C15_Witness ==
    /\ out.done
    /\ arg = [type |-> VecOf(TypeOf("i32")), native |-> None]
    /\ out.value.tag = "Array"
    /\ Array_len(out.value.arr) = 3
    /\ out.value.arr.values[2] = ValueBoolean(TRUE)
    /\ out.res = Panic

\* C16: for every native value x of a supported type T (bool, String, each
\* numeric width, Option<U> including None, Vec<U>, HashMap<String, U>,
\* BTreeMap<String, U>, and structs and enums deriving ToValue and
\* FromValue), T::from_value(x.to_value()) == Some(x).
C16_Symmetric ==
    (out.done /\ arg.native # None) => out.res = Returned(Some(unwrap(arg.native)))

\* The f32 a decimal literal of PriceLiterals spells.
PriceOf(literal) == parse_float(literal, "f32").value

\* C17: a struct deriving FromValue with fields (String, f32, bool) is
\* reconstructed from parsed JSON: for a JSON object text whose members are
\* a string, a decimal number literal and a boolean, payload_to_value
\* followed by the derived from_value returns Some(struct) whose fields
\* equal the JSON members.
C17_DeriveFromJson ==
    (out.done /\ "json" \in DOMAIN arg) =>
        out.res = Returned(Some(
            (<<"n", "a", "m", "e">> :> arg.json.name)
                @@ (<<"p", "r", "i", "c", "e">> :> PriceOf(arg.json.price))
                @@ (<<"a", "c", "t", "i", "v", "e">> :> arg.json.active)))

(***************************************************************************)
(* Printing (to/json.rs): to_json of every variant, of strings with        *)
(* quotes, backslashes, newlines, tabs and characters outside ASCII, and    *)
(* the stripping of Inline applied once more to the text returned.         *)
(***************************************************************************)
\* The longest string printed on its own.
MaxPrintLen == 3

\* The characters of the strings printed.
PrintChars == {"a", "\"", "\\", "\n", "\t", "eacute", "euro"}

PrintStrings == UNION {[1..n -> PrintChars] : n \in 0..MaxPrintLen}

\* Every variant, the strings, and containers that hold a string with a
\* tab, with a quote, and with a quote after a character outside ASCII, or
\* a key with a tab.
PrintValues ==
    JsonValues
        \cup {ValueUndefined,
              ValueDateTime(<<"2", "0", "2", "3", "-", "0", "4", "-", "0", "5">>)}
        \cup {ValueString(s) : s \in PrintStrings}
        \cup {ValueArray(ArrayOf(<<ValueString(s), ValueUndefined>>)) :
                s \in {<<"\t", "a">>, <<"a", "\"">>, <<"euro", "\"">>}}
        \cup {ValueObject(Object_from_BTreeMap(
                  [k \in {KeyOfStr(<<"k">>)} |-> ValueString(s)])) :
                s \in {<<"\n">>, <<"\\", "\"">>, <<"eacute", "euro", "\"">>}}
        \cup {ValueObject(Object_from_BTreeMap(
                  [k \in {KeyOfStr(<<"\t", "k">>)} |-> ValueString(<<"\n">>)]))}

PrintInit ==
    /\ arg \in PrintValues
    /\ out = [done |-> FALSE]
    /\ NumberIdle
    /\ ValueIdle
    /\ ObjectIdle

\* Value::inline(text), on the text to_json returned
InlineAgain ==
    /\ ~out.done
    /\ out # [done |-> FALSE]
    /\ out' = [done |-> TRUE, mode |-> out.mode, text |-> out.text,
               res |-> Returned(inline(out.text))]
    /\ UNCHANGED <<number, ncalls, val, calls, objS, objH, ocall, arg>>

PrintNext == ToJson \/ InlineAgain

SpecPrint == PrintInit /\ [][PrintNext]_vars

\* s with a backslash before each quote that has no backslash right before
\* it, from the character at index i on.
RECURSIVE Escaped(_, _)
Escaped(s, i) ==
    IF i > Len(s) THEN <<>>
    ELSE (IF s[i] = "\"" /\ (i = 1 \/ s[i - 1] # "\\") THEN <<"\\", "\"">> ELSE <<s[i]>>)
             \o Escaped(s, i + 1)

\* C18: for every string s, ASCII or not, to_json of Value::String(s)
\* terminates without panic and yields a double quote, then s with one
\* backslash inserted immediately before each double-quote character that is
\* not immediately preceded by a backslash and every other character
\* unchanged and in order, then a closing double quote.
C18_StringEscaping ==
    (arg.tag = "String" /\ out # [done |-> FALSE] /\ out.mode = "Indented") =>
        /\ "text" \in DOMAIN out
        /\ out.text = <<"\"">> \o Escaped(arg.s, 1) \o <<"\"">>

\* The text without its newline and tab characters.
RECURSIVE Stripped(_)
Stripped(text) ==
    IF text = <<>> THEN <<>>
    ELSE (IF Head(text) \in {"\n", "\t"} THEN <<>> ELSE <<Head(text)>>)
             \o Stripped(Tail(text))

\* C19: Inline serialization is a fixed point of the stripping step: for
\* every Value v, applying the newline and tab stripping to
\* v.to_json(Inline) again returns the same text, and v.to_json(Inline)
\* equals v.to_json(Indented) with every newline and tab character removed
\* (the two panic together when one of them does).
C19_InlineFixedPoint ==
    /\ (out.done /\ "text" \in DOMAIN out /\ out.mode = "Inline") =>
           out.res = Returned(out.text)
    /\ (~out.done /\ out # [done |-> FALSE] /\ out.mode = "Inline") =>
           \E indented \in to_json(arg, "Indented") : out.text = Stripped(indented)
    /\ (~out.done /\ out # [done |-> FALSE] /\ out.mode = "Indented") =>
           Stripped(out.text) \in to_json(arg, "Inline")
    /\ (out.done /\ "text" \notin DOMAIN out) =>
           to_json(arg, "Inline") = {Panic} /\ to_json(arg, "Indented") = {Panic}

\* An Object in a two-item Array was printed Inline, the text had no newline
\* and no tab left, and stripping it again gave it back.
C19_Witness ==
    /\ out.done
    /\ "text" \in DOMAIN out
    /\ out.mode = "Inline"
    /\ arg.tag = "Array"
    /\ Array_len(arg.arr) = 2
    /\ arg.arr.values[1].tag = "Object"
    /\ Len(out.text) < Len(CHOOSE t \in to_json(arg, "Indented") : TRUE)
    /\ out.res = Returned(out.text)

(***************************************************************************)
(* The order of keys() and values() (types/object.rs): entries are         *)
(* inserted one by one into an Object of either backing, both empty at     *)
(* first, and arg holds the insert calls made so far.                      *)
(***************************************************************************)
\* The most insert calls made.
MaxInserts == 3

OrderKeys == {KeyOfStr(<<"a">>), KeyOfStr(<<"b">>), KeyOfUsize(7)}

\* Object::from(BTreeMap::new()) and Object::default()
OrderInit ==
    /\ objS = Object_from_BTreeMap(<<>>)
    /\ objH = Object_default
    /\ ocall = [op |-> "none"]
    /\ arg = <<>>
    /\ out = [done |-> FALSE]
    /\ NumberIdle
    /\ ValueIdle

\* insert(key, value) on both
OrderInsert ==
    /\ Len(arg) < MaxInserts
    /\ \E key \in OrderKeys : \E value \in ObjVals :
          /\ objS' = Object_insert(objS, key, value).obj
          /\ objH' = Object_insert(objH, key, value).obj
          /\ ocall' = [op |-> "insert", key |-> key, value |-> value]
          /\ arg' = Append(arg, <<key, value>>)
    /\ UNCHANGED <<number, ncalls, val, calls, out>>

OrderNext == OrderInsert \/ ObjKeys \/ ObjValues

SpecOrder == OrderInit /\ [][OrderNext]_vars

\* The keys of the insert calls, each once, in the order of their first
\* insert.
RECURSIVE InsertedKeys(_)
InsertedKeys(inserts) ==
    IF inserts = <<>> THEN <<>>
    ELSE LET n == Len(inserts)
             before == InsertedKeys(SubSeq(inserts, 1, n - 1))
             k == to_value_key(inserts[n][1])
         IN IF \E i \in DOMAIN before : before[i] = k THEN before
            ELSE Append(before, k)

\* The value the insert calls left under the key k: that of the last one.
RECURSIVE InsertedValue(_, _)
InsertedValue(inserts, k) ==
    LET n == Len(inserts) IN
    IF to_value_key(inserts[n][1]) = k THEN inserts[n][2]
    ELSE InsertedValue(SubSeq(inserts, 1, n - 1), k)

\* C20: keys() and values() of an Object return the keys, respectively the
\* values, in the order in which the entries were inserted, for any
\* sequence of insert calls and for either backing.
C20_InsertionOrder ==
    /\ ocall.op = "keys" =>
          /\ ocall.retS = InsertedKeys(arg)
          /\ ocall.retH = InsertedKeys(arg)
    /\ ocall.op = "values" =>
          /\ ocall.retS = [i \in DOMAIN InsertedKeys(arg) |->
                              InsertedValue(arg, InsertedKeys(arg)[i])]
          /\ ocall.retH = [i \in DOMAIN InsertedKeys(arg) |->
                              InsertedValue(arg, InsertedKeys(arg)[i])]

\* The entries an Object holds, as <<key, value>> pairs.
Entries(o) ==
    IF o.backing = "BTreeMap" THEN {o.map[i] : i \in DOMAIN o.map}
    ELSE {<<k, o.map[k]>> : k \in DOMAIN o.map}

\* The sequence has each entry of the Object once and nothing else.
EachOnce(items, o) ==
    /\ Len(items) = Object_len(o)
    /\ {items[i] : i \in DOMAIN items} = Entries(o)
    /\ \A i, j \in DOMAIN items : i # j => items[i][1] # items[j][1]

\* C21: iter() on a sorted-backed Object yields every entry exactly once, in
\* ascending ValueKey order, and returns None after exactly len() items;
\* iter() on a hash-backed Object yields every entry exactly once in some
\* order; calling iter() again on an unmodified Object yields the same
\* multiset of entries, and iterating never changes the Object.
C21_ObjectIteration ==
    ocall.op = "iter" =>
        /\ EachOnce(ocall.retS, ocall.preS)
        /\ \A i \in 1..(Len(ocall.retS) - 1) :
              KeyLess(ocall.retS[i][1], ocall.retS[i + 1][1])
        /\ EachOnce(ocall.retH, ocall.preH)
        /\ \A again \in Object_iter(objS) : EachOnce(again, ocall.preS)
        /\ \A again \in Object_iter(objH) : EachOnce(again, ocall.preH)
        /\ objS = ocall.preS
        /\ objH = ocall.preH

\* Both iterations ran over three entries, the hash-backed one starting with
\* the entry the sorted-backed one ended with.
C21_Witness ==
    /\ ocall.op = "iter"
    /\ Len(ocall.retS) = 3
    /\ Len(ocall.retH) = 3
    /\ ocall.retH[1] = ocall.retS[3]
    /\ objS = ocall.preS

(***************************************************************************)
(* Table (valu3_parquet/src/table.rs): headers, columns of Values and the  *)
(* record batch of the last load.  A header is a string, a column a         *)
(* sequence of Values; indexes count from 0 as in the source.              *)
(***************************************************************************)
\* Table::new
Table_new == [headers |-> <<>>, cols |-> <<>>, record_batch |-> None]

\* headers.iter().position(|x| x == header)
Table_position(t, header) ==
    IF \E i \in DOMAIN t.headers : t.headers[i] = header
    THEN Some((CHOOSE i \in DOMAIN t.headers :
                 /\ t.headers[i] = header
                 /\ \A j \in 1..(i - 1) : t.headers[j] # header) - 1)
    ELSE None

Table_add_col_mut(t, col) == [t EXCEPT !.cols = Append(@, col), !.record_batch = None]

\* Table::add_col
Table_add_col(t, col) == [t EXCEPT !.cols = Append(@, col)]

\* Table::add_header_string: the table and the index returned
Table_add_header_string(t, header) ==
    [table |-> [t EXCEPT !.headers = Append(@, header)], ret |-> Len(t.headers)]

\* Table::add_header
Table_add_header(t, header) == Table_add_header_string(t, header)

\* Table::add_col_to_header_index
Table_add_col_to_header_index(t, header_index, col) ==
    IF header_index < Len(t.cols)
    THEN [t EXCEPT !.cols[header_index + 1] = @ \o col]
    ELSE [t EXCEPT !.cols = Append(@, col)]

\* Table::add_col_to_header
Table_add_col_to_header(t, header, col) ==
    With(Table_add_header(t, header), LAMBDA added :
        Table_add_col_to_header_index(added.table, added.ret, col))

\* Table::push_item: self.cols[col] panics beyond the columns
Table_push_item(t, col, value) ==
    IF col >= Len(t.cols) THEN Panic
    ELSE Returned([t EXCEPT !.cols[col + 1] = Append(@, value)])

\* Table::push_item_in_header
Table_push_item_in_header(t, header, value) ==
    With(Table_position(t, header), LAMBDA index :
        IF index # None THEN Table_push_item(t, unwrap(index), value)
        ELSE With(Table_add_header(t, header), LAMBDA added :
                Table_push_item(added.table, added.ret, value)))

\* Table::change_value: self.cols[col][row] panics beyond the columns and
\* beyond the rows of the column
Table_change_value(t, col, row, value) ==
    IF col >= Len(t.cols) THEN Panic
    ELSE IF row >= Len(t.cols[col + 1]) THEN Panic
    ELSE Returned([t EXCEPT !.cols[col + 1][row + 1] = value])

\* Table::add
Table_add(t, header, value) == Table_add_col(Table_add_header(t, header).table, value)

\* Table::get_col
Table_get_col(t, index) == IF index < Len(t.cols) THEN Some(t.cols[index + 1]) ELSE None

\* Table::extend, from the header at index (from 0) of the other table on:
\* get_col(index).unwrap() panics when the other table has no such column
RECURSIVE Table_extend_from(_, _, _)
Table_extend_from(t, table, index) ==
    IF index >= Len(table.headers) THEN Returned(t)
    ELSE IF Table_get_col(table, index) = None THEN Panic
    ELSE Table_extend_from(
             Table_add(t, table.headers[index + 1], unwrap(Table_get_col(table, index))),
             table, index + 1)

Table_extend(t, table) == Table_extend_from(t, table, 0)

\* Table::get
Table_get(t, header) ==
    With(Table_position(t, header), LAMBDA index :
        IF index = None THEN None ELSE Table_get_col(t, unwrap(index)))

\* Table::get_header
Table_get_header(t, index) ==
    IF index < Len(t.headers) THEN Some(t.headers[index + 1]) ELSE None

Table_get_headers(t) == t.headers

Table_get_cols(t) == t.cols

\* Table::to_map: each column under its header, a later column replacing an
\* earlier one of the same header; get_header(index).unwrap() panics for a
\* column without a header
Table_to_map(t) ==
    IF Len(t.cols) > Len(t.headers) THEN Panic
    ELSE Returned([header \in {t.headers[i] : i \in 1..Len(t.cols)} |->
                     t.cols[CHOOSE i \in 1..Len(t.cols) :
                              /\ t.headers[i] = header
                              /\ \A j \in 1..Len(t.cols) : t.headers[j] = header => j <= i]])

(***************************************************************************)
(* The record batch of a Table (valu3_parquet/src/table_record_batch.rs).  *)
(* An Arrow array is its data type and its items, None for a null; a       *)
(* record batch is a schema of named fields and one array per field.  The  *)
(* columns of the tables explored hold no Object and no Array.  A Parquet  *)
(* file holds the record batch written to it; writing and reading the file *)
(* succeed.                                                                *)
(***************************************************************************)
Err(kind) == [outcome |-> "err", err |-> kind]

\* NumberBehavior::is_float
is_float(n) == is_slot(n, "f32") \/ is_slot(n, "f64")

\* i as f64 of an i32
I32AsF64(i) == FloatOf(i.neg, i.mag, 0, "f64")

\* f as i32 of an f64: towards zero, saturating, 0 for NaN
F64AsI32(f) ==
    IF "nan" \in DOMAIN f THEN IntV(FALSE, <<>>)
    ELSE IF "inf" \in DOMAIN f
    THEN IntV(f.neg, IF f.neg THEN IntMinMag["i32"] ELSE IntMax["i32"])
    ELSE LET n == DigitsToNat(f.mant)
             t == IF f.exp >= 0 THEN n * 10^f.exp ELSE n \div 10^(-f.exp)
             most == DigitsToNat(IF f.neg THEN IntMinMag["i32"] ELSE IntMax["i32"])
             kept == IF t > most THEN most ELSE t
         IN IntV(f.neg /\ kept # 0, NatToDigits(kept))

\* value_get_i32!: the i32 slot, else the f64 slot cast, else the error
value_get_i32(n) ==
    IF get_slot(n, "i32") # None THEN Returned(unwrap(get_slot(n, "i32")))
    ELSE IF get_slot(n, "f64") # None THEN Returned(F64AsI32(unwrap(get_slot(n, "f64"))))
    ELSE Err("InvalidDataType")

\* value_get_f64!: the f64 slot, else the i32 slot cast, else the error
value_get_f64(n) ==
    IF get_slot(n, "f64") # None THEN Returned(unwrap(get_slot(n, "f64")))
    ELSE IF get_slot(n, "i32") # None THEN Returned(I32AsF64(unwrap(get_slot(n, "i32"))))
    ELSE Err("InvalidDataType")

\* The data type the item of a column starts an array of, None for an item
\* of the catch-all arm (Null, Undefined, DateTime), which counts as a null
\* put before the array.
DataTypeOf(item) ==
    CASE item.tag = "String" -> Some("Utf8")
      [] item.tag = "Number" -> Some(IF is_float(item.n) THEN "Float64" ELSE "Int32")
      [] item.tag = "Boolean" -> Some("Boolean")
      [] OTHER -> None

\* The item of an array of the data type: Some of the payload of a Value of
\* the variant of the array, None (a null) for any other Value, or the error
\* of the Number that has neither slot.
ArrayItem(type, item) ==
    IF item.tag = "String"
    THEN Returned(IF type = "Utf8" THEN Some(item.s) ELSE None)
    ELSE IF item.tag = "Boolean"
    THEN Returned(IF type = "Boolean" THEN Some(item.b) ELSE None)
    ELSE IF item.tag # "Number" \/ type \in {"Utf8", "Boolean"} THEN Returned(None)
    ELSE With(IF type = "Float64" THEN value_get_f64(item.n) ELSE value_get_i32(item.n),
              LAMBDA r : IF r = Err("InvalidDataType") THEN r ELSE Returned(Some(r.ret)))

\* The pass of TableRecordBatch::build over one column: no array (None) for
\* a column without an item that starts one, else the array of the data type
\* of the first such item, or the error of an item.
ColumnArray(col) ==
    IF \A i \in DOMAIN col : DataTypeOf(col[i]) = None THEN Returned(None)
    ELSE LET first == CHOOSE i \in DOMAIN col :
                          /\ DataTypeOf(col[i]) # None
                          /\ \A j \in 1..(i - 1) : DataTypeOf(col[j]) = None
             type == unwrap(DataTypeOf(col[first]))
             items == [i \in DOMAIN col |-> ArrayItem(type, col[i])]
         IN IF \E i \in DOMAIN col : items[i] = Err("InvalidDataType")
            THEN Err("InvalidDataType")
            ELSE Returned(Some([type |-> type,
                                values |-> [i \in DOMAIN col |-> items[i].ret]]))

\* RecordBatch::try_new(schema, columns): an error unless there is one
\* array per field, at least one, and all of one length
RecordBatch_try_new(schema, columns) ==
    IF \/ Len(schema) # Len(columns)
       \/ columns = <<>>
       \/ \E i \in DOMAIN columns : Len(columns[i].values) # Len(columns[1].values)
    THEN Err("CreateRecordBatch")
    ELSE Returned([schema |-> schema, columns |-> columns])

\* TableRecordBatch::build: the arrays of the columns, then the fields, one
\* per header with the data type of the array at its index (a panic when
\* there are fewer arrays than headers), then the record batch
TableRecordBatch_build(value_table) ==
    LET arrays == [i \in DOMAIN value_table.cols |-> ColumnArray(value_table.cols[i])]
        built == SelectSeq(arrays, LAMBDA a : a # Err("InvalidDataType") /\ a.ret # None)
        columns == [i \in DOMAIN built |-> unwrap(built[i].ret)]
    IN IF \E i \in DOMAIN arrays : arrays[i] = Err("InvalidDataType")
       THEN Err("InvalidDataType")
       ELSE IF Len(value_table.headers) > Len(columns) THEN Panic
       ELSE RecordBatch_try_new(
                [i \in DOMAIN value_table.headers |->
                    [name |-> value_table.headers[i], type |-> columns[i].type]],
                columns)

\* Table::load_record_batch: the table after it, and what it returns
Table_load_record_batch(t) ==
    With(TableRecordBatch_build(t), LAMBDA r :
        IF r = Panic THEN [table |-> t, ret |-> Panic]
        ELSE IF r.outcome = "err" THEN [table |-> t, ret |-> r]
        ELSE [table |-> [t EXCEPT !.record_batch = Some(r.ret)], ret |-> Returned(Unit)])

\* Table::to_parquet: what it returns, and with Ok the record batch the file
\* then holds
Table_to_parquet(t) ==
    IF t.record_batch = None THEN Err("RecordNotFound")
    ELSE Returned(unwrap(t.record_batch))

\* Table::get_batch_record
Table_get_batch_record(t) ==
    IF t.record_batch = None THEN Err("RecordNotFound")
    ELSE Returned(unwrap(t.record_batch))

\* Table::get_schema
Table_get_schema(t) ==
    IF t.record_batch = None THEN Err("RecordNotFound")
    ELSE Returned(unwrap(t.record_batch).schema)

\* array_to_value!: Null for a null, else Value::from of the item
array_to_value(type, item) ==
    IF item = None THEN ValueNull
    ELSE CASE type = "Utf8" -> ValueString(unwrap(item))
           [] type = "Boolean" -> ValueBoolean(unwrap(item))
           [] type = "Int32" -> ValueNumber(Number_from("i32", unwrap(item)))
           [] type = "Float64" -> ValueNumber(Number_from("f64", unwrap(item)))

\* Table::from(&RecordBatch): a column per array, then a header per field
Table_from(batch) ==
    [headers |-> [i \in DOMAIN batch.schema |-> batch.schema[i].name],
     cols |-> [i \in DOMAIN batch.columns |->
                  [row \in DOMAIN batch.columns[i].values |->
                      array_to_value(batch.columns[i].type, batch.columns[i].values[row])]],
     record_batch |-> None]

\* Table::from_parquet of a file that holds the record batch
Table_from_parquet(file) == Returned(Table_from(file))

(***************************************************************************)
(* A Table under its calls.  arg holds the table and the headers and       *)
(* columns it had at its last successful load; out holds the last call     *)
(* and what it returned, done after a panic.                               *)
(***************************************************************************)
\* The most headers, columns and rows of a column of the table.
MaxHeaders == 2
MaxCols == 2
MaxRows == 2

TableHeaders == {<<"a">>, <<"b">>}

\* The Values pushed and written: an i32 Number and a Null.
TableValues == {ValueNumber(Number_from("i32", IntV(FALSE, <<1>>))), ValueNull}

\* The columns the calls are given: of a Number, with a Null first, and
\* empty.
TableColumns ==
    {<<ValueNumber(Number_from("i32", IntV(FALSE, <<1>>)))>>,
     <<ValueNull, ValueNumber(Number_from("i32", IntV(FALSE, <<1>>)))>>,
     <<>>}

\* The tables extend is given.
OtherTables ==
    {Table_add(Table_new, <<"b">>, <<ValueNull>>),
     Table_add_header(Table_new, <<"a">>).table}

\* The table is within the sizes explored.
TableInBounds(t) ==
    /\ Len(t.headers) <= MaxHeaders
    /\ Len(t.cols) <= MaxCols
    /\ \A i \in DOMAIN t.cols : Len(t.cols[i]) <= MaxRows

\* Table::new()
TableInit ==
    /\ arg = [table |-> Table_new, loaded |-> None]
    /\ out = [done |-> FALSE]
    /\ NumberIdle
    /\ ValueIdle
    /\ ObjectIdle

\* A call that returns nothing: the table after it, or a panic.
TableCall(call, r) ==
    /\ ~out.done
    /\ IF r = Panic
       THEN /\ out' = [done |-> TRUE, call |-> call, ret |-> Panic]
            /\ arg' = arg
       ELSE /\ TableInBounds(r.ret)
            /\ out' = [done |-> FALSE, call |-> call, ret |-> Returned(Unit)]
            /\ arg' = [arg EXCEPT !.table = r.ret]
    /\ UNCHANGED <<number, ncalls, val, calls, objS, objH, ocall>>

\* A call that leaves the table as it is and returns ret, or panics.
TableRead(call, ret) ==
    /\ ~out.done
    /\ out' = [done |-> ret = Panic, call |-> call, ret |-> ret]
    /\ arg' = arg
    /\ UNCHANGED <<number, ncalls, val, calls, objS, objH, ocall>>

TblAdd ==
    \E header \in TableHeaders : \E value \in TableColumns :
        TableCall([op |-> "add"], Returned(Table_add(arg.table, header, value)))

TblAddCol ==
    \E col \in TableColumns :
        TableCall([op |-> "add_col"], Returned(Table_add_col(arg.table, col)))

TblAddHeader ==
    \E header \in TableHeaders :
        TableCall([op |-> "add_header"], Returned(Table_add_header(arg.table, header).table))

TblAddColToHeader ==
    \E header \in TableHeaders : \E col \in TableColumns :
        TableCall([op |-> "add_col_to_header", header |-> header, col |-> col],
                  Returned(Table_add_col_to_header(arg.table, header, col)))

TblPushItem ==
    \E col \in 0..MaxCols : \E value \in TableValues :
        TableCall([op |-> "push_item"], Table_push_item(arg.table, col, value))

TblPushItemInHeader ==
    \E header \in TableHeaders : \E value \in TableValues :
        TableCall([op |-> "push_item_in_header", header |-> header, value |-> value],
                  Table_push_item_in_header(arg.table, header, value))

TblChangeValue ==
    \E col \in 0..MaxCols : \E row \in 0..MaxRows : \E value \in TableValues :
        TableCall([op |-> "change_value"], Table_change_value(arg.table, col, row, value))

TblExtend ==
    \E table \in OtherTables :
        TableCall([op |-> "extend"], Table_extend(arg.table, table))

TblGet ==
    \E header \in TableHeaders :
        TableRead([op |-> "get", header |-> header], Returned(Table_get(arg.table, header)))

TblToMap == TableRead([op |-> "to_map"], Table_to_map(arg.table))

TblGetBatchRecord == TableRead([op |-> "get_batch_record"], Table_get_batch_record(arg.table))

TblGetSchema == TableRead([op |-> "get_schema"], Table_get_schema(arg.table))

\* table.load_record_batch()
TblLoadRecordBatch ==
    /\ ~out.done
    /\ With(Table_load_record_batch(arg.table), LAMBDA r :
         /\ out' = [done |-> r.ret = Panic, call |-> [op |-> "load_record_batch"],
                    ret |-> r.ret]
         /\ arg' = IF r.ret = Returned(Unit)
                   THEN [table |-> r.table,
                         loaded |-> Some([headers |-> arg.table.headers,
                                          cols |-> arg.table.cols])]
                   ELSE arg)
    /\ UNCHANGED <<number, ncalls, val, calls, objS, objH, ocall>>

\* table.to_parquet(path): with Ok the file holds the record batch
TblToParquet ==
    /\ ~out.done
    /\ With(Table_to_parquet(arg.table), LAMBDA r :
         out' = [done |-> FALSE, call |-> [op |-> "to_parquet"],
                 ret |-> IF r.outcome = "ok" THEN Returned(Unit) ELSE r])
    /\ arg' = arg
    /\ UNCHANGED <<number, ncalls, val, calls, objS, objH, ocall>>

\* Table::from_parquet(path) of the file the call before wrote, the table
\* returned kept in out
TblFromParquet ==
    /\ ~out.done
    /\ out # [done |-> FALSE]
    /\ out.call.op = "to_parquet"
    /\ out.ret = Returned(Unit)
    /\ out' = [done |-> FALSE, call |-> [op |-> "from_parquet"],
               ret |-> Table_from_parquet(Table_to_parquet(arg.table).ret)]
    /\ arg' = arg
    /\ UNCHANGED <<number, ncalls, val, calls, objS, objH, ocall>>

TableNext ==
    \/ TblAdd
    \/ TblAddCol
    \/ TblAddHeader
    \/ TblAddColToHeader
    \/ TblPushItem
    \/ TblPushItemInHeader
    \/ TblChangeValue
    \/ TblExtend
    \/ TblGet
    \/ TblToMap
    \/ TblGetBatchRecord
    \/ TblGetSchema
    \/ TblLoadRecordBatch
    \/ TblToParquet
    \/ TblFromParquet

SpecTable == TableInit /\ [][TableNext]_vars

\* C22: a Table populated only through add(header, column) calls can be
\* written with to_parquet(path), which returns Ok, and from_parquet(path)
\* then returns a table whose get_headers() and get_cols() equal those of
\* the original table.  (Tables with as many columns as headers, at least
\* one, are the ones add calls build.)
C22_ParquetRoundTrip ==
    (/\ out # [done |-> FALSE]
     /\ Len(arg.table.headers) >= 1
     /\ Len(arg.table.headers) = Len(arg.table.cols)) =>
        /\ out.call.op = "to_parquet" => out.ret = Returned(Unit)
        /\ out.call.op = "from_parquet" =>
              /\ Table_get_headers(out.ret.ret) = Table_get_headers(arg.table)
              /\ Table_get_cols(out.ret.ret) = Table_get_cols(arg.table)

\* C23: Table::push_item_in_header(header, value) pushes value into the
\* column associated with header and completes without panic in every table
\* state: if header already exists the value is appended to that header's
\* column, and if it does not exist (including on an empty table) the
\* header is added and value becomes the first item of its column.
C23_PushItemInHeader ==
    [][out'.call.op = "push_item_in_header" =>
          LET header == out'.call.header
              value == out'.call.value
              index == Table_position(arg.table, header)
          IN /\ out'.ret # Panic
             /\ IF index # None
                THEN /\ arg'.table.headers = arg.table.headers
                     /\ arg'.table.cols =
                            [arg.table.cols EXCEPT ![unwrap(index) + 1] = Append(@, value)]
                ELSE /\ arg'.table.headers = Append(arg.table.headers, header)
                     /\ Table_get(arg'.table, header) = Some(<<value>>)]_vars

\* The sequence part occurs in the sequence whole, in one piece.
Contains(whole, part) ==
    \E from \in 0..(Len(whole) - Len(part)) :
        SubSeq(whole, from + 1, from + Len(part)) = part

\* C24: Table::add_col_to_header(header, col) adds the column and
\* associates it with the given header: in any table state reached by add,
\* add_header, add_col and add_col_to_header calls, after
\* add_col_to_header(h, col) the column returned for h by get(h) and by
\* to_map() contains the values of col, and headers and columns stay
\* index-aligned (headers.len() == cols.len() whenever that held before the
\* call).
C24_AddColToHeader ==
    [][(out'.call.op = "add_col_to_header" /\ arg.table.record_batch = None) =>
          LET header == out'.call.header
              col == out'.call.col
              got == Table_get(arg'.table, header)
              map == Table_to_map(arg'.table)
          IN /\ got # None
             /\ Contains(unwrap(got), col)
             /\ map # Panic
             /\ header \in DOMAIN map.ret
             /\ Contains(map.ret[header], col)
             /\ Len(arg.table.headers) = Len(arg.table.cols) =>
                    Len(arg'.table.headers) = Len(arg'.table.cols)]_vars

\* The table with the headers and columns of the last successful load.
LoadedTable ==
    [headers |-> unwrap(arg.loaded).headers, cols |-> unwrap(arg.loaded).cols,
     record_batch |-> None]

\* C30: a Table's record_batch is None after new(), becomes Some only
\* through a successful load_record_batch(), and is neither updated nor
\* cleared by add, add_col, add_header, add_col_to_header, push_item,
\* push_item_in_header, change_value or extend; hence to_parquet,
\* get_batch_record and get_schema return Err(RecordNotFound) before the
\* first successful load, and after it they expose the table as it was at
\* the last load, not its current headers and columns.
C30_RecordBatchSnapshot ==
    /\ arg.table.record_batch = None <=> arg.loaded = None
    /\ arg.loaded # None =>
          Returned(unwrap(arg.table.record_batch)) = TableRecordBatch_build(LoadedTable)
    /\ (out # [done |-> FALSE] /\ arg.loaded = None) =>
          /\ out.call.op \in {"to_parquet", "get_batch_record", "get_schema"} =>
                out.ret = Err("RecordNotFound")
    /\ (out # [done |-> FALSE] /\ arg.loaded # None) =>
          /\ out.call.op = "to_parquet" => out.ret = Returned(Unit)
          /\ out.call.op = "get_batch_record" => out.ret = TableRecordBatch_build(LoadedTable)
          /\ out.call.op = "get_schema" =>
                out.ret = Returned(TableRecordBatch_build(LoadedTable).ret.schema)

\* A table loaded with one header was given a second header and column, and
\* get_schema still returned the one field of the load.
C30_Witness ==
    /\ arg.loaded # None
    /\ Len(LoadedTable.headers) = 1
    /\ Len(arg.table.headers) = 2
    /\ Len(arg.table.cols) = 2
    /\ out.call.op = "get_schema"
    /\ Len(out.ret.ret) = 1

\* The calls made since the last clean().
SinceClean(cs) ==
    LET cleans == {i \in 1..Len(cs) : cs[i].op = "clean"}
        from == IF cleans = {} THEN 0 ELSE CHOOSE i \in cleans : \A j \in cleans : j <= i
    IN SubSeq(cs, from + 1, Len(cs))

\* The order in which number_type() is said to look at the slots.
TypeOrder == <<"i8", "i16", "i32", "i64", "i128",
               "u8", "u16", "u32", "u64", "u128", "f32", "f64">>

\* C25: set_X(v) changes only slot X and leaves the other 11 slots
\* unchanged, so after any sequence of set_* and clean calls the populated
\* slots are exactly those set since the last clean; number_type() then
\* returns the first populated slot in the order i8, i16, i32, i64, i128,
\* u8, u16, u32, u64, u128, f32, f64 (Unknown iff none is populated), and
\* Display prints "Unknown" iff zero or at least two slots are populated.
C25_SettersAccumulate ==
    LET sets == SinceClean(ncalls)
        populated == {w \in WidthSet : is_slot(number, w)}
        first == {i \in 1..Len(TypeOrder) :
                     /\ TypeOrder[i] \in populated
                     /\ \A j \in 1..(i - 1) : TypeOrder[j] \notin populated}
    IN /\ populated = {sets[i].width : i \in 1..Len(sets)}
       /\ \A i \in 1..Len(sets) :
             (\A j \in (i + 1)..Len(sets) : sets[j].width # sets[i].width) =>
                 get_slot(number, sets[i].width) = Some(sets[i].value)
       /\ \A i \in first : number_type(number) = TagOf(TypeOrder[i])
       /\ number_type(number) = "Unknown" <=> populated = {}
       /\ Number_to_string(number) = <<"U", "n", "k", "n", "o", "w", "n">>
              <=> Cardinality(populated) # 1

\* f64, u8 and then i64 were set with no clean in between: three slots are
\* populated, number_type() answers I64 and Display prints "Unknown".
C25_Witness ==
    /\ Len(ncalls) = 4
    /\ ncalls[1].op = "clean"
    /\ ncalls[2] = SetCall("f64", FloatV(FALSE, <<3, 1, 4>>, -2))
    /\ ncalls[3].op = "set" /\ ncalls[3].width = "u8"
    /\ ncalls[4].op = "set" /\ ncalls[4].width = "i64"
    /\ number_type(number) = "I64"
    /\ Number_to_string(number) = <<"U", "n", "k", "n", "o", "w", "n">>

\* The parsers try_from reaches only after the i32 and the f64 parser.
LaterParsers == {"i8", "i16", "i64", "i128", "u8", "u16", "u32", "u64", "u128", "f32"}

\* C26: Number::try_from(&str) only ever produces a Number whose populated
\* slot is i32 or f64: every string accepted by the i8, i16, i64, i128, u8,
\* u16, u32, u64, u128 or f32 parsers is already accepted by the i32 or the
\* f64 parser tried earlier (an integer literal outside the i32 range, e.g.
\* 3000000000, is stored as f64).
C26_OnlyI32OrF64 ==
    out.done =>
        /\ out.res.ok =>
              \/ {w \in WidthSet : is_slot(out.res.number, w)} = {"i32"}
              \/ {w \in WidthSet : is_slot(out.res.number, w)} = {"f64"}
        /\ \A X \in LaterParsers :
              parse(arg, X).ok => (parse(arg, "i32").ok \/ parse(arg, "f64").ok)
        /\ arg = <<"3", "0", "0", "0", "0", "0", "0", "0", "0", "0">> =>
              out.res = NumberOk(OnlySlot("f64", parse(arg, "f64").value))

\* try_from("3000000000") has run: the u32 and the i64 parser accept the
\* string, and the Number holds it in the f64 slot.
C26_Witness ==
    /\ out.done
    /\ arg = <<"3", "0", "0", "0", "0", "0", "0", "0", "0", "0">>
    /\ parse(arg, "u32").ok
    /\ parse(arg, "i64").ok
    /\ ~parse(arg, "i32").ok
    /\ out.res.ok
    /\ is_slot(out.res.number, "f64")
    /\ Number_to_string(out.res.number) = arg

Object_eq_mut(a, b) == Entries(a) = Entries(b)

\* #[derive(PartialEq)] on enum Object: the same variant holding equal maps
Object_eq(a, b) == a.backing = b.backing /\ a.map = b.map

\* #[derive(PartialEq)] on enum Value, two Objects compared as Objects do
Value_eq(a, b) ==
    IF a.tag # b.tag THEN FALSE
    ELSE IF a.tag = "Object" THEN Object_eq(a.obj, b.obj)
    ELSE a = b

\* Value::Object(Object::from(m)) of the BTreeMap m to_value was called on.
SortedOfNative ==
    ValueObject(Object_from_BTreeMap(
        [k \in {KeyOfString(name) : name \in DOMAIN unwrap(arg.native)} |->
            to_value(arg.type.of, unwrap(arg.native)[k.s])]))

\* C27: a sorted-backed Object and a hash-backed Object holding exactly the
\* same entries (including both empty) compare unequal, and so do the
\* Values wrapping them; in particular for any BTreeMap m, m.to_value()
\* (built hash-backed) is not equal to Value::Object(Object::from(m))
\* (built sorted-backed).
C27_BackingSensitiveEquality ==
    (/\ "value" \in DOMAIN out
     /\ arg.native # None
     /\ arg.type.t = "BTreeMap") =>
        /\ out.value.tag = "Object"
        /\ out.value.obj.backing = "HashMap"
        /\ SortedOfNative.obj.backing = "BTreeMap"
        /\ Entries(out.value.obj) = Entries(SortedOfNative.obj)
        /\ Object_len(out.value.obj) = Cardinality(DOMAIN unwrap(arg.native))
        /\ ~Object_eq(SortedOfNative.obj, out.value.obj)
        /\ ~Object_eq(out.value.obj, SortedOfNative.obj)
        /\ ~Value_eq(out.value, SortedOfNative)
        /\ Object_eq(out.value.obj, out.value.obj)
        /\ Object_eq(SortedOfNative.obj, SortedOfNative.obj)

\* to_value() has run on a BTreeMap of two entries.
C27_Witness ==
    /\ "value" \in DOMAIN out
    /\ arg.native # None
    /\ arg.type = BTreeMapOf(TypeOf("bool"))
    /\ DOMAIN unwrap(arg.native) = {<<"a">>, <<"b">>}
    /\ Entries(out.value.obj) = Entries(SortedOfNative.obj)
    /\ ~Value_eq(out.value, SortedOfNative)

\* The Value with the newlines and tabs taken out of its strings and keys;
\* an Object as its backing and the set of its entries.
RECURSIVE StripValue(_)
StripValue(v) ==
    CASE v.tag = "String" -> ValueString(Stripped(v.s))
      [] v.tag = "Array" ->
           [tag |-> "Array",
            items |-> [i \in DOMAIN v.arr.values |-> StripValue(v.arr.values[i])]]
      [] v.tag = "Object" ->
           [tag |-> "Object", backing |-> v.obj.backing,
            entries |-> {<<Stripped(ValueKey_to_string(e[1])), StripValue(e[2])>> :
                           e \in Entries(v.obj)}]
      [] OTHER -> v

RECURSIVE Quoted(_)
Quoted(v) ==
    CASE v.tag = "String" -> \E i \in DOMAIN v.s : v.s[i] = "\""
      [] v.tag = "Array" -> \E i \in DOMAIN v.arr.values : Quoted(v.arr.values[i])
      [] v.tag = "Object" -> \E e \in Entries(v.obj) : Quoted(e[2])
      [] OTHER -> FALSE

Value_write(v, key, x) ==
    With(Value_get_mut(v, key), LAMBDA got :
      IF got = Panic THEN Panic
      ELSE IF got.ret = None THEN Ok(v, Unit)
      ELSE IF v.tag = "Array"
      THEN Ok(ValueArray(ArrayOf([v.arr.values EXCEPT ![as_usize(key) + 1] = x])), Unit)
      ELSE Ok(ValueObject(Object_insert(v.obj, key, x).obj), Unit))

\* The elements, the keys and the values written.
IndexItems == {ValueNull, ValueBoolean(TRUE)}
IndexKeys ==
    {KeyOfUsize(0), KeyOfUsize(1), KeyOfUsize(3),
     KeyOfStr(<<"1">>), KeyOfString(<<"1">>), KeyOfStr(<<"a">>)}
IndexWritten == {ValueString(<<"h", "i">>), ValueNull}

\* The longest Array read and written.
MaxIndexLen == 3

\* An Array of up to MaxIndexLen elements, or an Object with the key "1"
IndexInit ==
    /\ val \in {ValueArray(ArrayOf(items)) :
                  items \in UNION {[1..n -> IndexItems] : n \in 0..MaxIndexLen}}
               \cup {ValueObject(Object_from_BTreeMap(
                         [k \in {KeyOfStr(<<"1">>)} |-> ValueNull]))}
    /\ calls = <<>>
    /\ NumberIdle
    /\ ObjectIdle
    /\ ConversionIdle

IdxGet ==
    \E key \in IndexKeys : Called("get", [key |-> key], Value_get(val, key))

IdxGetMut ==
    \E key \in IndexKeys : Called("get_mut", [key |-> key], Value_get_mut(val, key))

IdxWrite ==
    \E key \in IndexKeys : \E x \in IndexWritten :
        Called("write", [key |-> key, value |-> x], Value_write(val, key, x))

IndexNext == IdxGet \/ IdxGetMut \/ IdxWrite

SpecIndex == IndexInit /\ [][IndexNext]_vars

\* The index a key is said to address: n for the usize n, 0 for a String
\* and a &str.
Addressed(key) == IF key.type = "usize" THEN key.n ELSE 0

\* C29: on the Array variant a usize key n addresses element n (None if
\* n >= len), while any String or &str key addresses element 0 whatever its
\* content, so on a non-empty array get("1") returns the first element
\* rather than the second or None; a write through get_mut(k) is observed
\* by a later get(k) and changes no other element.
C29_ArrayIndex ==
    \A i \in DOMAIN calls :
        LET c == calls[i]
            items == c.pre.arr.values
            post == IF i = Len(calls) THEN val ELSE calls[i + 1].pre
            n == Addressed(c.args.key)
        IN c.pre.tag = "Array" =>
              /\ c.res.outcome = "ok"
              /\ c.op \in {"get", "get_mut"} =>
                    /\ c.res.ret = (IF n < Len(items) THEN Some(items[n + 1]) ELSE None)
                    /\ post = c.pre
              /\ (c.op = "get" /\ c.args.key.type # "usize" /\ items # <<>>) =>
                    c.res.ret = Some(items[1])
              /\ c.op = "write" =>
                    /\ post.tag = "Array"
                    /\ Len(post.arr.values) = Len(items)
                    /\ \A j \in DOMAIN items :
                          post.arr.values[j] = (IF j = n + 1 THEN c.args.value ELSE items[j])
              /\ (/\ c.op = "write"
                  /\ i < Len(calls)
                  /\ calls[i + 1].op = "get"
                  /\ calls[i + 1].args.key = c.args.key
                  /\ n < Len(items)) =>
                    calls[i + 1].res.ret = Some(c.args.value)

\* "hi" was written through get_mut("1") into an Array of three elements
\* and get("1") returned it: the first element holds it, the second and the
\* third are as they were.
C29_Witness ==
    /\ Len(calls) = 2
    /\ calls[1].op = "write"
    /\ calls[1].args = [key |-> KeyOfStr(<<"1">>), value |-> ValueString(<<"h", "i">>)]
    /\ calls[1].pre = ValueArray(ArrayOf(<<ValueNull, ValueBoolean(TRUE), ValueNull>>))
    /\ calls[2].op = "get"
    /\ calls[2].args.key = KeyOfStr(<<"1">>)
    /\ calls[2].res.ret = Some(ValueString(<<"h", "i">>))
    /\ val = ValueArray(ArrayOf(<<ValueString(<<"h", "i">>), ValueBoolean(TRUE), ValueNull>>))

=============================================================================
